---------------------------- MODULE Spec2Model ----------------------------
(***************************************************************************)
(* A model of tower-ipfilter: the raw address/network filter IpFilter<S>   *)
(* (ip_filter.rs) and the geo-derived filter GeoIpv4Filter (geo_filter.rs),*)
(* both behind the NetworkFilter trait (network_filter_service.rs), the    *)
(* Filter service and the client-address extraction in front of it         *)
(* (network_filter_service.rs, connection_info_service.rs), and the        *)
(* construction of the geo filter from the source archive or the cache     *)
(* file (geo_filter.rs, extract.rs, compress.rs).                          *)
(*                                                                         *)
(* Addresses are AddrBits wide instead of 32/128 bits; a network is an     *)
(* address with a prefix length, and containment compares the top `prefix` *)
(* bits, as ipnetwork's contains() does.                                   *)
(***************************************************************************)
EXTENDS Integers, Sequences, FiniteSets, TLC

VARIABLES filter, mode, addresses, networks, countries, last,
          cache_file, writer, scan, reader, setters

vars == <<filter, mode, addresses, networks, countries, last,
          cache_file, writer, scan, reader, setters>>

\* the variables of the calls that the specifications of concurrent calls
\* take step by step, and the order in which the networks map iterates
calls == <<writer, scan, reader, setters>>

(***************************************************************************)
(* Bounds of the model.                                                    *)
(***************************************************************************)
\* width of an address in bits (32 for IPv4, 128 for IPv6 in the program)
AddrBits == 1
\* most entries the two maps of a raw filter hold together
MaxEntries == 2

(***************************************************************************)
(* Values.                                                                 *)
(***************************************************************************)
Pow2(n) == 2 ^ n

AddrVals == 0 .. (Pow2(AddrBits) - 1)

Families == {"V4", "V6"}

\* std::net::IpAddr
IpAddrs == [fam : Families, val : AddrVals]

V4(v) == [fam |-> "V4", val |-> v]

V6(v) == [fam |-> "V6", val |-> v]

\* top `prefix` bits of an address: addr & mask
MaskBits(v, prefix) == v \div Pow2(AddrBits - prefix)

\* a network whose host bits are zero
IsCanonical(v, prefix) == MaskBits(v, prefix) * Pow2(AddrBits - prefix) = v

\* ipnetwork::IpNetwork, an address and a prefix length
IpNetworks == {n \in [fam : Families, addr : AddrVals, prefix : 0 .. AddrBits] :
                 IsCanonical(n.addr, n.prefix)}

Ipv4Networks == {n \in IpNetworks : n.fam = "V4"}

\* contains that leaves out the last address of a network of several
ContainsButLast(n, ip) ==
    /\ n.fam = ip.fam
    /\ MaskBits(ip.val, n.prefix) = MaskBits(n.addr, n.prefix)
    /\ \/ n.prefix = AddrBits
       \/ ip.val # (MaskBits(n.addr, n.prefix) + 1) * Pow2(AddrBits - n.prefix) - 1

\* IpNetwork::contains: families agree and the masked addresses are equal
Contains(n, ip) ==
    /\ n.fam = ip.fam
    /\ MaskBits(ip.val, n.prefix) = MaskBits(n.addr, n.prefix)

\* IpNetwork::from(addr): the single-address network
HostNetwork(ip) == [fam |-> ip.fam, addr |-> ip.val, prefix |-> AddrBits]

\* Ipv4Network::network(): the first address of the network
NetworkAddr(n) ==
    [fam |-> n.fam,
     val |-> MaskBits(n.addr, n.prefix) * Pow2(AddrBits - n.prefix)]

\* the last address of the network
BroadcastAddr(n) ==
    [fam |-> n.fam,
     val |-> NetworkAddr(n).val + Pow2(AddrBits - n.prefix) - 1]

Modes == {"BlackList", "WhiteList"}

\* IpMetaData { reason, date }
BlockedMeta == [reason |-> "Blocked", date |-> "2021-09-01"]

IpMetaDatas == {BlockedMeta, [reason |-> "Spam", date |-> "2024-01-01"]}

(***************************************************************************)
(* The arguments of the NetworkFilter calls: the implementors of           *)
(* IpAddrExt.                                                              *)
(***************************************************************************)
IpAddrExts ==
    [ty : {"Ipv4Addr"}, val : AddrVals]
    \cup [ty : {"Ipv6Addr"}, val : AddrVals]
    \cup [ty : {"IpAddr"}, ip : IpAddrs]
    \cup [ty : {"Ipv4Network"}, net : Ipv4Networks]

\* the arguments the calls of a run are made with: every IPv4 address and
\* the first and the last IPv6 address as an IpAddr, every IPv4 network, and
\* the first address of either family as an Ipv4Addr / Ipv6Addr
Args ==
    {x \in IpAddrExts :
       \/ x.ty = "IpAddr" /\ (x.ip.fam = "V4" \/ x.ip.val \in {0, Pow2(AddrBits) - 1})
       \/ x.ty = "Ipv4Network"
       \/ x.ty \in {"Ipv4Addr", "Ipv6Addr"} /\ x.val = 0}

to_ip_addr(x) ==
    CASE x.ty = "Ipv4Addr" -> V4(x.val)
      [] x.ty = "Ipv6Addr" -> V6(x.val)
      [] x.ty = "IpAddr" -> x.ip
      [] x.ty = "Ipv4Network" -> NetworkAddr(x.net)

to_network(x) ==
    CASE x.ty = "Ipv4Addr" -> HostNetwork(V4(x.val))
      [] x.ty = "Ipv6Addr" -> HostNetwork(V6(x.val))
      [] x.ty = "IpAddr" -> HostNetwork(x.ip)
      [] x.ty = "Ipv4Network" -> x.net

is_ipv4(x) ==
    CASE x.ty = "Ipv4Addr" -> TRUE
      [] x.ty = "Ipv6Addr" -> FALSE
      [] x.ty = "IpAddr" -> x.ip.fam = "V4"
      [] x.ty = "Ipv4Network" -> TRUE

(***************************************************************************)
(* DashMap as a function from its keys.                                    *)
(***************************************************************************)
EmptyMap == [k \in {} |-> TRUE]

Insert(m, k, v) == [x \in (DOMAIN m) \cup {k} |-> IF x = k THEN v ELSE m[x]]

Remove(m, k) == [x \in (DOMAIN m) \ {k} |-> m[x]]

Entries == Cardinality(DOMAIN addresses) + Cardinality(DOMAIN networks)

\* Option<V> as a set: None is {}, Some(v) is {v}
Get(m, k) == IF k \in DOMAIN m THEN {m[k]} ELSE {}

\* a bool as the text of its value
Bool(b) == IF b THEN "true" ELSE "false"

\* what a call leaves behind: the operation, how it ended ("ok", "panic",
\* or the bool it returned) and an Option: what DashMap::insert / remove
\* returned to it (the old value of the key, which the code drops), for
\* get_country_for_ip the country it returned, for set_countries the set
\* that clear() emptied, for unblock on the geo filter the override it removed
Ret(op, out, old) == [op |-> op, out |-> out, old |-> old]

(***************************************************************************)
(* IpFilter<S>                                                             *)
(***************************************************************************)
RawFilters == {"IpFilter<V4>", "IpFilter<V6>"}

\* the family the marker type S of the filter stands for
FilterFamily == IF filter = "IpFilter<V6>" THEN "V6" ELSE "V4"

\* is_ip_blocked with the polarity of the network branch left out
RawIsIpBlockedNoPolarity(ip) ==
    IF ip \in DOMAIN addresses
    THEN mode = "BlackList"
    ELSE IF \E n \in DOMAIN networks : Contains(n, ip)
         THEN TRUE
         ELSE mode = "WhiteList"

\* IpFilter::is_ip_blocked
RawIsIpBlocked(ip) ==
    IF ip \in DOMAIN addresses
    THEN mode = "BlackList"
    ELSE IF \E n \in DOMAIN networks : Contains(n, ip)
         THEN mode = "BlackList"
         ELSE mode = "WhiteList"

\* add_ip that keeps the entry a key already has (entry().or_insert)
RawAddIpKeepOld(ip, meta) ==
    IF ip \in DOMAIN addresses THEN addresses ELSE Insert(addresses, ip, meta)

\* IpFilter::add_ip: the addresses map it leaves
add_ip(ip, meta) == Insert(addresses, ip, meta)

\* IpFilter::add_network: the networks map it leaves
add_network(net, meta) == Insert(networks, net, meta)

\* the two maps of a filter, and the old value of the key that was written
Maps(a, n, old) == [addresses |-> a, networks |-> n, old |-> old]

\* block_ip that takes every argument as an address, whatever the flag
block_ip_address_only(x, network) ==
    Maps(add_ip(to_ip_addr(x), BlockedMeta), networks,
         Get(addresses, to_ip_addr(x)))

\* IpFilter::block_ip
block_ip(x, network) ==
    IF network
    THEN Maps(addresses, add_network(to_network(x), BlockedMeta),
              Get(networks, to_network(x)))
    ELSE Maps(add_ip(to_ip_addr(x), BlockedMeta), networks,
              Get(addresses, to_ip_addr(x)))

\* unblock_ip that removes the key from both maps
unblock_ip_both(x, network) ==
    Maps(Remove(addresses, to_ip_addr(x)), Remove(networks, to_network(x)),
         IF network THEN Get(networks, to_network(x))
                    ELSE Get(addresses, to_ip_addr(x)))

\* IpFilter::unblock_ip
unblock_ip(x, network) ==
    IF network
    THEN Maps(addresses, Remove(networks, to_network(x)),
              Get(networks, to_network(x)))
    ELSE Maps(Remove(addresses, to_ip_addr(x)), networks,
              Get(addresses, to_ip_addr(x)))

\* the guard of the V4 impl, copied to the V6 impl without its negation
FamilyOkV4Only(x) == is_ipv4(x)

\* the guard of the NetworkFilter impls: is_ipv4() for V4, !is_ipv4() for V6
FamilyOk(x) == is_ipv4(x) = (FilterFamily = "V4")

\* what a call does: the maps it leaves, how it ends and the old value of the
\* key it wrote
Outcome(maps, out) ==
    [addresses |-> maps.addresses, networks |-> maps.networks,
     out |-> out, old |-> maps.old]

\* a call that panics leaves the maps as they are
Panic == Outcome(Maps(addresses, networks, {}), "panic")

\* <IpFilter<S> as NetworkFilter>::block
RawBlockCall(x, network) ==
    IF FamilyOk(x) THEN Outcome(block_ip(x, network), "ok") ELSE Panic

\* <IpFilter<S> as NetworkFilter>::unblock
RawUnblockCall(x, network) ==
    IF FamilyOk(x) THEN Outcome(unblock_ip(x, network), "ok") ELSE Panic

\* <IpFilter<S> as NetworkFilter>::is_blocked
RawIsBlockedCall(x) ==
    IF FamilyOk(x)
    THEN Outcome(Maps(addresses, networks, {}), Bool(RawIsIpBlocked(to_ip_addr(x))))
    ELSE Panic

\* the step of a call: the maps and the record of the call become its outcome
Do(op, o) ==
    /\ addresses' = o.addresses
    /\ networks' = o.networks
    /\ last' = Ret(op, o.out, o.old)

\* room for the entries of the maps a call leaves
Room(o) ==
    Cardinality(DOMAIN o.addresses) + Cardinality(DOMAIN o.networks) <= MaxEntries

\* a direct call of IpFilter::add_ip with the caller's metadata, by a caller
\* that hands the filter keys of its own family
RawAddIp(ip, meta) ==
    /\ filter \in RawFilters
    /\ ip.fam = FilterFamily
    /\ LET o == Outcome(Maps(add_ip(ip, meta), networks, Get(addresses, ip)), "ok")
       IN  Room(o) /\ Do("add_ip", o)
    /\ UNCHANGED <<calls, cache_file, filter, mode, countries>>

\* a direct call of IpFilter::add_network with the caller's metadata, by a
\* caller that hands the filter keys of its own family
RawAddNetwork(net, meta) ==
    /\ filter \in RawFilters
    /\ net.fam = FilterFamily
    /\ LET o == Outcome(Maps(addresses, add_network(net, meta), Get(networks, net)), "ok")
       IN  Room(o) /\ Do("add_network", o)
    /\ UNCHANGED <<calls, cache_file, filter, mode, countries>>

\* a call of block on a raw filter
RawBlock(x, network) ==
    /\ filter \in RawFilters
    /\ Room(RawBlockCall(x, network))
    /\ Do("block", RawBlockCall(x, network))
    /\ UNCHANGED <<calls, cache_file, filter, mode, countries>>

\* a call of unblock on a raw filter
RawUnblock(x, network) ==
    /\ filter \in RawFilters
    /\ Do("unblock", RawUnblockCall(x, network))
    /\ UNCHANGED <<calls, cache_file, filter, mode, countries>>

\* a call of is_blocked on a raw filter
RawIsBlocked(x) ==
    /\ filter \in RawFilters
    /\ Do("is_blocked", RawIsBlockedCall(x))
    /\ UNCHANGED <<calls, cache_file, filter, mode, countries>>

\* no file is the cache of a filter built in memory
NoFile == {}

\* the call of set_countries in progress: where it is, its argument, the
\* set it found, the names whose shards clear() has yet to visit and the
\* index of the next name to insert
Writer(pc, names, old, todo, i) ==
    [pc |-> pc, names |-> names, old |-> old, todo |-> todo, i |-> i]

\* no call of set_countries is in progress
Idle == Writer("idle", <<>>, {}, {}, 1)

\* the call of is_ip_blocked(ip) in progress: where it is, the keys of the
\* networks map its iterator has yet to visit and what it returned; and of
\* the states since the call began: whether the address key was present in
\* all of them, the networks holding ip that were stored in all of them,
\* whether ip was a member in all of them, the decisions on them, and
\* whether a block or unblock was among them
Reader(pc, ip, todo, out, key_stable, nets_stable, member_all, decisions, raced) ==
    [pc |-> pc, ip |-> ip, todo |-> todo, out |-> out,
     key_stable |-> key_stable, nets_stable |-> nets_stable,
     member_all |-> member_all, decisions |-> decisions, raced |-> raced]

\* no call of is_ip_blocked is in progress on the raw filter
NoReader == Reader("idle", V4(0), {}, "pending", FALSE, {}, FALSE, {}, FALSE)

\* no two calls of set_countries are in progress
NoSetters == <<>>

\* every call is taken as one step: no call is in progress, and the order
\* of iteration of the networks map is not kept (a scan may meet any
\* network first)
Sequential ==
    /\ writer = Idle
    /\ scan = <<>>
    /\ reader = NoReader
    /\ setters = NoSetters

\* IpFilter::new(mode)
InitRaw ==
    /\ cache_file = NoFile
    /\ Sequential
    /\ filter \in RawFilters
    /\ mode \in Modes
    /\ addresses = EmptyMap
    /\ networks = EmptyMap
    /\ countries = {}
    /\ last = Ret("new", "ok", {})

NextRaw ==
    \/ \E ip \in IpAddrs, meta \in IpMetaDatas : RawAddIp(ip, meta)
    \/ \E net \in IpNetworks, meta \in IpMetaDatas : RawAddNetwork(net, meta)
    \/ \E x \in Args, network \in BOOLEAN : RawBlock(x, network)
    \/ \E x \in Args, network \in BOOLEAN : RawUnblock(x, network)
    \/ \E x \in Args : RawIsBlocked(x)

SpecRaw == InitRaw /\ [][NextRaw]_vars

(***************************************************************************)
(* GeoData and the Country Index of GeoIpv4Filter                          *)
(***************************************************************************)
\* CountryLocation: geoname_id and the optional country_name (None is {});
\* the other fields are carried along and never read
Location(id, name) == [geoname_id |-> id, country_name |-> name]

UnitedStates == Location(1, {"United States"})

France == Location(2, {"France"})

\* a row of the locations table without a country name (a continent)
Nameless == Location(3, {})

\* the record GeoIpv4Filter::new pins the loopback address to
Norway == Location(0, {"Norway"})

\* 127.0.0.1 at the width of the model: high bits clear, lowest bit set
Localhost == V4(1)

\* GeoData::country_locations: geoname_id -> CountryLocation
country_locations == (1 :> UnitedStates) @@ (2 :> France) @@ (3 :> Nameless)

\* the text of a network, as the network column of the blocks table holds it
NetworkText(n) == ToString(n.addr) \o "/" \o ToString(n.prefix)

\* block.network.parse(): Ok(network) is {network}, Err is {}; the host bits
\* of the address need not be zero
ParseNetwork(text) ==
    {n \in [fam : {"V4"}, addr : AddrVals, prefix : 0 .. AddrBits] :
       NetworkText(n) = text}

\* IpBlock: the network text and the optional geoname_id
IpBlock(text, id) == [network |-> text, geoname_id |-> id]

\* GeoData::ip_blocks of the archives a filter is built from: no block; one
\* country on all addresses with another inside it; a location without a
\* name on all addresses
GeoDatas ==
    {<<>>,
     <<IpBlock("0/0", {1}), IpBlock("1/1", {2})>>,
     <<IpBlock("0/0", {3})>>}

\* the loop body that maps a block without location to the first location
InsertBlockDefault(map, block, locations) ==
    IF block.geoname_id = {} \/ ParseNetwork(block.network) = {}
    THEN map
    ELSE LET geoname_id == CHOOSE g \in block.geoname_id : TRUE
             network == CHOOSE n \in ParseNetwork(block.network) : TRUE
         IN  IF geoname_id \in DOMAIN locations
             THEN Insert(map, network, locations[geoname_id])
             ELSE IF DOMAIN locations = {} THEN map
             ELSE Insert(map, network,
                         locations[CHOOSE g \in DOMAIN locations : TRUE])

\* the body of the loop of GeoIpv4Filter::new for one block, with the
\* country_locations of the data
InsertBlockIn(map, block, locations) ==
    IF block.geoname_id = {} \/ ParseNetwork(block.network) = {}
    THEN map
    ELSE LET geoname_id == CHOOSE g \in block.geoname_id : TRUE
             network == CHOOSE n \in ParseNetwork(block.network) : TRUE
         IN  IF geoname_id \in DOMAIN locations
             THEN Insert(map, network, locations[geoname_id])
             ELSE map

\* the body of the loop of GeoIpv4Filter::new for one block
InsertBlock(map, block) == InsertBlockIn(map, block, country_locations)

RECURSIVE InsertBlocks(_, _)
\* the loop of GeoIpv4Filter::new over geo_data.ip_blocks
InsertBlocks(map, blocks) ==
    IF blocks = <<>> THEN map
    ELSE InsertBlocks(InsertBlock(map, Head(blocks)), Tail(blocks))

RECURSIVE InsertBlocksIn(_, _, _)
\* the loop of GeoIpv4Filter::new, with the country_locations of the data
InsertBlocksIn(map, blocks, locations) ==
    IF blocks = <<>> THEN map
    ELSE InsertBlocksIn(InsertBlockIn(map, Head(blocks), locations),
                        Tail(blocks), locations)

\* the ip_country_map GeoIpv4Filter::new builds: localhost, then the blocks
BuildIndex(blocks) ==
    InsertBlocks(Insert(EmptyMap, HostNetwork(Localhost), Norway), blocks)

\* the ip_country_map GeoIpv4Filter::new builds from a GeoData
BuildIndexOf(data) ==
    InsertBlocksIn(Insert(EmptyMap, HostNetwork(Localhost), Norway),
                   data.ip_blocks, data.country_locations)

(***************************************************************************)
(* GeoIpv4Filter                                                           *)
(***************************************************************************)
\* the names handed to is_country_blocked
CountryNames == {"United States", "France", "france"}

\* the lists handed to set_countries
CountryLists ==
    {<<>>, <<"United States">>, <<"France">>, <<"France", "France">>,
     <<"United States", "france">>}

\* get_country_for_ip that scans the networks before it looks for an override
get_country_networks_first(ip) ==
    IF \E m \in DOMAIN networks : Contains(m, ip)
    THEN {networks[n] : n \in {m \in DOMAIN networks : Contains(m, ip)}}
    ELSE IF ip \in DOMAIN addresses THEN {addresses[ip]} ELSE {}

\* GeoIpv4Filter::get_country_for_ip: the countries the call may return, one
\* per network the scan may meet first (a DashMap iterates in no fixed order);
\* the empty set when it returns None
get_country_for_ip(ip) ==
    IF ip \in DOMAIN addresses
    THEN {addresses[ip]}
    ELSE {networks[n] : n \in {m \in DOMAIN networks : Contains(m, ip)}}

RECURSIVE InsertAll(_, _)
InsertAll(set, names) ==
    IF names = <<>> THEN set
    ELSE InsertAll(set \cup {Head(names)}, Tail(names))

\* set_countries without the clear()
set_countries_no_clear(names) == InsertAll(countries, names)

\* GeoIpv4Filter::set_countries: clear, then insert every name
set_countries(names) == InsertAll({}, names)

\* is_country_blocked that reads the set the same way in both modes
is_country_blocked_any_mode(name) == name \in countries

\* GeoIpv4Filter::is_country_blocked
is_country_blocked(name) ==
    IF mode = "BlackList" THEN name \in countries ELSE name \notin countries

\* is_ip_blocked that treats an unresolved address as a country that is not
\* in the set
is_ip_blocked_fail_closed(ip) ==
    IF get_country_for_ip(ip) = {}
    THEN {Bool(mode = "WhiteList")}
    ELSE {IF c.country_name = {}
          THEN "panic"
          ELSE Bool(is_country_blocked(CHOOSE n \in c.country_name : TRUE))
            : c \in get_country_for_ip(ip)}

\* GeoIpv4Filter::is_ip_blocked: the ways the call may end, "panic" where
\* country_name.unwrap() meets None
is_ip_blocked(ip) ==
    IF get_country_for_ip(ip) = {}
    THEN {"false"}
    ELSE {IF c.country_name = {}
          THEN "panic"
          ELSE Bool(is_country_blocked(CHOOSE n \in c.country_name : TRUE))
            : c \in get_country_for_ip(ip)}

\* GeoIpv4Filter::add_ip: the addresses maps the call may leave
geo_add_ip(ip) ==
    IF get_country_for_ip(ip) = {}
    THEN {addresses}
    ELSE {Insert(addresses, ip, c) : c \in get_country_for_ip(ip)}

\* remove_ip that leaves the entry in place
remove_ip_nothing(ip) == addresses

\* GeoIpv4Filter::remove_ip
remove_ip(ip) == Remove(addresses, ip)

\* GeoIpv4Filter::add_network: the networks maps the call may leave
geo_add_network(net) ==
    IF get_country_for_ip(NetworkAddr(net)) = {}
    THEN {networks}
    ELSE {Insert(networks, net, c) : c \in get_country_for_ip(NetworkAddr(net))}

\* GeoIpv4Filter::remove_network
remove_network(net) == Remove(networks, net)

\* a call that does nothing and returns
Nothing == Outcome(Maps(addresses, networks, {}), "ok")

\* <GeoIpv4Filter as NetworkFilter>::block: the outcomes the call may have
GeoBlockCall(x, network) ==
    IF network
    THEN IF to_network(x).fam = "V4"
         THEN {Outcome(Maps(addresses, n, {}), "ok")
                 : n \in geo_add_network(to_network(x))}
         ELSE {Nothing}
    ELSE IF to_ip_addr(x).fam = "V4"
         THEN {Outcome(Maps(a, networks, {}), "ok")
                 : a \in geo_add_ip(to_ip_addr(x))}
         ELSE {Nothing}

\* <GeoIpv4Filter as NetworkFilter>::unblock
GeoUnblockCall(x, network) ==
    IF network
    THEN IF to_network(x).fam = "V4"
         THEN Outcome(Maps(addresses, remove_network(to_network(x)), {}), "ok")
         ELSE Nothing
    ELSE IF to_ip_addr(x).fam = "V4"
         THEN Outcome(Maps(remove_ip(to_ip_addr(x)), networks,
                           Get(addresses, to_ip_addr(x))), "ok")
         ELSE Nothing

\* the negation of what is_ip_blocked returned; a panic passes through
NotOut(out) ==
    CASE out = "true" -> "false"
      [] out = "false" -> "true"
      [] OTHER -> out

\* <GeoIpv4Filter as NetworkFilter>::is_blocked: the ways the call may end
GeoIsBlockedCall(x) ==
    IF to_ip_addr(x).fam = "V4"
    THEN {NotOut(out) : out \in is_ip_blocked(to_ip_addr(x))}
    ELSE {"false"}

\* room for the entries of the Country Index and the override map: the
\* loopback entry and MaxEntries more
GeoRoom(o) ==
    Cardinality(DOMAIN o.addresses) + Cardinality(DOMAIN o.networks)
       <= MaxEntries + 1

\* a call of get_country_for_ip
GeoGetCountryForIp(ip) ==
    /\ filter = "GeoIpv4Filter"
    /\ \/ /\ get_country_for_ip(ip) = {}
          /\ last' = Ret("get_country_for_ip", "none", {})
       \/ \E c \in get_country_for_ip(ip) :
             last' = Ret("get_country_for_ip", "some", {c})
    /\ UNCHANGED <<calls, cache_file, filter, mode, addresses, networks, countries>>

\* a call of set_countries
GeoSetCountries(names) ==
    /\ filter = "GeoIpv4Filter"
    /\ countries' = set_countries(names)
    /\ last' = Ret("set_countries", "ok", {countries})
    /\ UNCHANGED <<calls, cache_file, filter, mode, addresses, networks>>

\* a call of is_country_blocked
GeoIsCountryBlocked(name) ==
    /\ filter = "GeoIpv4Filter"
    /\ last' = Ret("is_country_blocked", Bool(is_country_blocked(name)), {})
    /\ UNCHANGED <<calls, cache_file, filter, mode, addresses, networks, countries>>

\* a call of is_ip_blocked
GeoIsIpBlocked(ip) ==
    /\ filter = "GeoIpv4Filter"
    /\ \E out \in is_ip_blocked(ip) : last' = Ret("is_ip_blocked", out, {})
    /\ UNCHANGED <<calls, cache_file, filter, mode, addresses, networks, countries>>

\* a call of block on the geo filter
GeoBlock(x, network) ==
    /\ filter = "GeoIpv4Filter"
    /\ \E o \in GeoBlockCall(x, network) : GeoRoom(o) /\ Do("block", o)
    /\ UNCHANGED <<calls, cache_file, filter, mode, countries>>

\* a call of unblock on the geo filter
GeoUnblock(x, network) ==
    /\ filter = "GeoIpv4Filter"
    /\ Do("unblock", GeoUnblockCall(x, network))
    /\ UNCHANGED <<calls, cache_file, filter, mode, countries>>

\* a call of is_blocked on the geo filter
GeoIsBlocked(x) ==
    /\ filter = "GeoIpv4Filter"
    /\ \E out \in GeoIsBlockedCall(x) : last' = Ret("is_blocked", out, {})
    /\ UNCHANGED <<calls, cache_file, filter, mode, addresses, networks, countries>>

\* GeoIpv4Filter::new(mode, path) on the data of some archive
InitGeo ==
    /\ cache_file = NoFile
    /\ Sequential
    /\ filter = "GeoIpv4Filter"
    /\ mode \in Modes
    /\ \E blocks \in GeoDatas : networks = BuildIndex(blocks)
    /\ addresses = EmptyMap
    /\ countries = {}
    /\ last = Ret("new", "ok", {})

NextGeo ==
    \/ \E ip \in AddrVals : GeoGetCountryForIp(V4(ip))
    \/ \E names \in CountryLists : GeoSetCountries(names)
    \/ \E name \in CountryNames : GeoIsCountryBlocked(name)
    \/ \E ip \in AddrVals : GeoIsIpBlocked(V4(ip))
    \/ \E x \in Args, network \in BOOLEAN : GeoBlock(x, network)
    \/ \E x \in Args, network \in BOOLEAN : GeoUnblock(x, network)
    \/ \E x \in Args : GeoIsBlocked(x)

SpecGeo == InitGeo /\ [][NextGeo]_vars

(***************************************************************************)
(* Client-address extraction (connection_info_service.rs) and the Filter   *)
(* service (network_filter_service.rs).  A header value is a sequence of   *)
(* characters; "x80" stands for a byte that is not visible ASCII.          *)
(***************************************************************************)
\* the text of an address, as std::net::IpAddr prints and parses it
AddrText(ip) ==
    IF ip.fam = "V4" THEN <<ToString(ip.val)>>
    ELSE <<":", ":", ToString(ip.val)>>

\* str::parse::<IpAddr>: the address the text spells, if it spells one
ParseIp(text) == {ip \in IpAddrs : AddrText(ip) = text}

\* HeaderValue::to_str: the text of a value of visible ASCII only
to_str(hv) == IF \E i \in DOMAIN hv : hv[i] = "x80" THEN {} ELSE {hv}

\* s.split(',').next() that takes the last element of the list
LastElement(text) ==
    IF \E i \in DOMAIN text : text[i] = ","
    THEN LET last_comma == CHOOSE i \in DOMAIN text :
                              /\ text[i] = ","
                              /\ \A j \in DOMAIN text : text[j] = "," => j <= i
         IN  SubSeq(text, last_comma + 1, Len(text))
    ELSE text

\* s.split(',').next(): the text before the first comma
FirstElement(text) ==
    IF \E i \in DOMAIN text : text[i] = ","
    THEN LET first_comma == CHOOSE i \in DOMAIN text :
                               /\ text[i] = ","
                               /\ \A j \in DOMAIN text : text[j] = "," => i <= j
         IN  SubSeq(text, 1, first_comma - 1)
    ELSE text

\* str::trim: without the white space at both ends
RECURSIVE Trim(_)
Trim(text) ==
    IF text = <<>> THEN text
    ELSE IF Head(text) = " " THEN Trim(Tail(text))
    ELSE IF text[Len(text)] = " " THEN Trim(SubSeq(text, 1, Len(text) - 1))
    ELSE text

\* the headers in the order of headers_to_check, reversed
headers_reversed ==
    <<"X-Forwarded-For", "X-Real-IP", "True-Client-IP", "CF-Connecting-IP">>

\* headers_to_check of extract_ip_axum and extract_ip_hyper
headers_to_check ==
    <<"CF-Connecting-IP", "True-Client-IP", "X-Real-IP", "X-Forwarded-For">>

HeaderNames == {headers_to_check[i] : i \in DOMAIN headers_to_check}

\* values of a header: one address; a list with white space; a list whose
\* first element is no address; a list with a byte that is not ASCII
HeaderValues ==
    {<<"1">>,
     <<" ", "0", ",", " ", "1">>,
     <<"x", ",", "1">>,
     <<"0", ",", "x80">>}

\* requests: each header absent or present, the peer address that axum's
\* ConnectInfo<SocketAddr> extension holds, the host of the URI
Requests ==
    [headers : [HeaderNames -> {{}} \cup {{v} : v \in HeaderValues}],
     connect_info : {{}, {V4(0)}},
     host : {{}, {<<"1">>}}]

\* the body of the loop over headers_to_check: the address of one header
HeaderIp(req, header) ==
    IF req.headers[header] = {} THEN {}
    ELSE LET hv == CHOOSE v \in req.headers[header] : TRUE
         IN  IF to_str(hv) = {} THEN {}
             ELSE ParseIp(Trim(FirstElement(hv)))

\* the loop over headers_to_check from its i-th header on
RECURSIVE HeadersIp(_, _)
HeadersIp(req, i) ==
    IF i > Len(headers_to_check) THEN {}
    ELSE IF HeaderIp(req, headers_to_check[i]) # {}
         THEN HeaderIp(req, headers_to_check[i])
         ELSE HeadersIp(req, i + 1)

\* axum_impl::extract_ip_axum
extract_ip_axum(req) ==
    IF HeadersIp(req, 1) # {} THEN HeadersIp(req, 1) ELSE req.connect_info

\* hyper_impl::extract_ip_hyper
extract_ip_hyper(req) ==
    IF HeadersIp(req, 1) # {} THEN HeadersIp(req, 1)
    ELSE IF req.host = {} THEN {}
         ELSE ParseIp(CHOOSE h \in req.host : TRUE)

\* the features a build enables; with both, cfg_if takes axum
Features == {"axum", "hyper", "none"}

\* extract_ip: how the call ends and the address it returns
extract_ip(req, feature) ==
    CASE feature = "axum" -> [out |-> "ok", ip |-> extract_ip_axum(req)]
      [] feature = "hyper" -> [out |-> "ok", ip |-> extract_ip_hyper(req)]
      [] OTHER -> [out |-> "panic", ip |-> {}]

\* NetworkFilter::is_blocked of the filter behind the service
IsBlockedCall(x) ==
    IF filter = "GeoIpv4Filter" THEN GeoIsBlockedCall(x)
    ELSE {RawIsBlockedCall(x).out}

\* the response of a call of the service: its status and how often the
\* inner service was called
Response(status, inner_calls) == [status |-> status, inner_calls |-> inner_calls]

\* create_access_denied_response, create_ip_not_found_response
Forbidden == Response("403", 0)

\* the inner service, the handler of the route, answers 200 OK
InnerCall == Response("200", 1)

\* <Filter<S, F> as Service>::call on a request whose extensions hold the
\* ConnectionInfo conn or none: the responses it may give
FilterCall(conn) ==
    IF conn = {} THEN {Forbidden}
    ELSE {CASE out = "true" -> Forbidden
            [] out = "false" -> InnerCall
            [] OTHER -> Response("panic", 0)
          : out \in IsBlockedCall([ty |-> "IpAddr",
                                   ip |-> CHOOSE ip \in conn : TRUE])}

\* <AddConnectionInfo<S> as Service>::call in front of the Filter service
AddConnectionInfoCall(req, feature) ==
    IF extract_ip(req, feature).out = "panic" THEN {Response("panic", 0)}
    ELSE FilterCall(extract_ip(req, feature).ip)

\* a request to the Filter service alone
ServiceFilter(conn) ==
    /\ \E r \in FilterCall(conn) :
          last' = Ret("Filter::call", r.status,
                      {[ip |-> conn, inner_calls |-> r.inner_calls]})
    /\ UNCHANGED <<calls, cache_file, filter, mode, addresses, networks, countries>>

\* a request to the stack of AddConnectionInfo and Filter
ServiceStack(req, feature) ==
    /\ \E r \in AddConnectionInfoCall(req, feature) :
          last' = Ret("AddConnectionInfo::call", r.status,
                      {[ip |-> extract_ip(req, feature).ip,
                        inner_calls |-> r.inner_calls]})
    /\ UNCHANGED <<calls, cache_file, filter, mode, addresses, networks, countries>>

\* the requests the service is driven with: at most one header is present
ServiceRequests ==
    {req \in Requests :
        Cardinality({h \in HeaderNames : req.headers[h] # {}}) <= 1}

NextService ==
    \/ \E names \in CountryLists : GeoSetCountries(names)
    \/ \E conn \in {{}} \cup {{ip} : ip \in IpAddrs} : ServiceFilter(conn)
    \/ \E req \in ServiceRequests, feature \in Features :
          ServiceStack(req, feature)

\* the service in front of a geo filter
SpecService == InitGeo /\ [][NextService]_vars

\* a call of extract_ip on the request at hand
ExtractIp(feature) ==
    /\ last.op = "request"
    /\ \E req \in last.old :
          last' = Ret("extract_ip", extract_ip(req, feature).out,
                      {[req |-> req, feature |-> feature,
                        ip |-> extract_ip(req, feature).ip]})
    /\ UNCHANGED <<calls, cache_file, filter, mode, addresses, networks, countries>>

\* no filter: the extraction reads the request alone, any request
InitExtract ==
    /\ cache_file = NoFile
    /\ Sequential
    /\ filter = "none"
    /\ mode = "BlackList"
    /\ addresses = EmptyMap
    /\ networks = EmptyMap
    /\ countries = {}
    /\ \E req \in Requests : last = Ret("request", "pending", {req})

NextExtract == \E feature \in Features : ExtractIp(feature)

SpecExtract == InitExtract /\ [][NextExtract]_vars

(***************************************************************************)
(* set_countries step by step, with readers in between (geo_filter.rs).    *)
(* DashMap::clear empties the shards one after the other, each under its   *)
(* own lock; the names of one shard are some of the names of the set.      *)
(***************************************************************************)
\* clear() that leaves the shard as it is
clear_shard_nothing(set, shard) == set

\* the step of DashMap::clear on one shard
clear_shard(set, shard) == set \ shard

\* set_countries is called and clear() starts
SetCountriesBegin(names) ==
    /\ filter = "GeoIpv4Filter"
    /\ writer.pc \in {"idle", "returned"}
    /\ writer' = Writer("clear", names, countries, countries, 1)
    /\ UNCHANGED <<scan, reader, setters>>
    /\ UNCHANGED <<cache_file, filter, mode, addresses, networks, countries, last>>

\* clear() empties one more shard
SetCountriesClear(shard) ==
    /\ writer.pc = "clear"
    /\ shard # {} /\ shard \subseteq writer.todo
    /\ countries' = clear_shard(countries, shard)
    /\ writer' = [writer EXCEPT !.todo = @ \ shard]
    /\ UNCHANGED <<scan, reader, setters>>
    /\ UNCHANGED <<cache_file, filter, mode, addresses, networks, last>>

\* clear() has visited every shard and returns
SetCountriesCleared ==
    /\ writer.pc = "clear"
    /\ writer.todo = {}
    /\ writer' = [writer EXCEPT !.pc = "insert"]
    /\ UNCHANGED <<scan, reader, setters>>
    /\ UNCHANGED <<cache_file, filter, mode, addresses, networks, countries, last>>

\* one turn of the loop: the next name is inserted
SetCountriesInsert ==
    /\ writer.pc = "insert"
    /\ writer.i <= Len(writer.names)
    /\ countries' = countries \cup {writer.names[writer.i]}
    /\ writer' = [writer EXCEPT !.i = @ + 1]
    /\ UNCHANGED <<scan, reader, setters>>
    /\ UNCHANGED <<cache_file, filter, mode, addresses, networks, last>>

\* the loop is over and set_countries returns
SetCountriesReturn ==
    /\ writer.pc = "insert"
    /\ writer.i > Len(writer.names)
    /\ writer' = [writer EXCEPT !.pc = "returned"]
    /\ last' = Ret("set_countries", "ok", {writer.old})
    /\ UNCHANGED <<scan, reader, setters>>
    /\ UNCHANGED <<cache_file, filter, mode, addresses, networks, countries>>

\* one writer; readers call is_country_blocked and is_ip_blocked at any time
NextSetCountries ==
    \/ \E names \in CountryLists : SetCountriesBegin(names)
    \/ \E shard \in SUBSET CountryNames : SetCountriesClear(shard)
    \/ SetCountriesCleared
    \/ SetCountriesInsert
    \/ SetCountriesReturn
    \/ \E name \in CountryNames : GeoIsCountryBlocked(name)
    \/ \E ip \in AddrVals : GeoIsIpBlocked(V4(ip))

SpecSetCountries == InitGeo /\ [][NextSetCountries]_vars

(***************************************************************************)
(* Two calls of set_countries at the same time, each step by step: clear() *)
(* visits the shards of the DashMap one after the other, then the loop     *)
(* inserts name after name (geo_filter.rs).                                *)
(***************************************************************************)
\* the two callers
Callers == {"A", "B"}

\* the sets an earlier call of set_countries has left
OldSets == {set_countries(names) : names \in CountryLists}

\* a caller calls set_countries and clear() starts: it has every shard of
\* the map to visit
SettersBegin(w, names) ==
    /\ setters[w].pc = "idle"
    /\ setters' = [setters EXCEPT
                     ![w] = Writer("clear", names, countries, CountryNames, 1)]
    /\ UNCHANGED <<writer, scan, reader>>
    /\ UNCHANGED <<cache_file, filter, mode, addresses, networks, countries, last>>

\* clear() of a caller empties one more shard, with whatever the other
\* caller has inserted into it
SettersClear(w, shard) ==
    /\ setters[w].pc = "clear"
    /\ shard # {} /\ shard \subseteq setters[w].todo
    /\ countries' = clear_shard(countries, shard)
    /\ setters' = [setters EXCEPT ![w].todo = @ \ shard]
    /\ UNCHANGED <<writer, scan, reader>>
    /\ UNCHANGED <<cache_file, filter, mode, addresses, networks, last>>

\* clear() of a caller has visited every shard and returns
SettersCleared(w) ==
    /\ setters[w].pc = "clear"
    /\ setters[w].todo = {}
    /\ setters' = [setters EXCEPT ![w].pc = "insert"]
    /\ UNCHANGED <<writer, scan, reader>>
    /\ UNCHANGED <<cache_file, filter, mode, addresses, networks, countries, last>>

\* one turn of the loop of a caller: the next name is inserted
SettersInsert(w) ==
    /\ setters[w].pc = "insert"
    /\ setters[w].i <= Len(setters[w].names)
    /\ countries' = countries \cup {setters[w].names[setters[w].i]}
    /\ setters' = [setters EXCEPT ![w].i = @ + 1]
    /\ UNCHANGED <<writer, scan, reader>>
    /\ UNCHANGED <<cache_file, filter, mode, addresses, networks, last>>

\* the loop of a caller is over and its set_countries returns
SettersReturn(w) ==
    /\ setters[w].pc = "insert"
    /\ setters[w].i > Len(setters[w].names)
    /\ setters' = [setters EXCEPT ![w].pc = "returned"]
    /\ last' = Ret("set_countries", "ok", {setters[w].old})
    /\ UNCHANGED <<writer, scan, reader>>
    /\ UNCHANGED <<cache_file, filter, mode, addresses, networks, countries>>

\* a geo filter whose Blocked-Country Set an earlier call has set, and two
\* callers that have not called yet
InitSetters ==
    /\ cache_file = NoFile
    /\ writer = Idle /\ scan = <<>> /\ reader = NoReader
    /\ setters = [w \in Callers |-> Idle]
    /\ filter = "GeoIpv4Filter"
    /\ mode \in Modes
    /\ networks = BuildIndex(<<>>)
    /\ addresses = EmptyMap
    /\ countries \in OldSets
    /\ last = Ret("set_countries", "ok", {})

\* each caller calls set_countries once; the steps of the two interleave
NextSetters ==
    \E w \in Callers :
       \/ \E names \in CountryLists : SettersBegin(w, names)
       \/ \E shard \in SUBSET CountryNames : SettersClear(w, shard)
       \/ SettersCleared(w)
       \/ SettersInsert(w)
       \/ SettersReturn(w)

SpecSetters == InitSetters /\ [][NextSetters]_vars

(***************************************************************************)
(* IpFilter::is_ip_blocked step by step, with block and unblock of other   *)
(* calls between its steps (ip_filter.rs).  contains_key reads one shard   *)
(* of the addresses map; the iterator of the networks map locks and reads  *)
(* one shard after the other, so what it has passed can change behind it.  *)
(* A key stands for its shard: keys of one shard are read in steps that    *)
(* follow each other.  Of the shards only those of the keys that can hold  *)
(* the address are followed: the visit of any other shard changes nothing. *)
(***************************************************************************)
\* the address is a key of the map a or lies in a key of the map n
MemberIn(a, n, ip) ==
    ip \in DOMAIN a \/ \E k \in DOMAIN n : Contains(k, ip)

\* the decision of is_ip_blocked on the maps a and n
DecisionIn(a, n, ip) ==
    Bool(IF MemberIn(a, n, ip) THEN mode = "BlackList" ELSE mode = "WhiteList")

\* the call is between its start and its return
InProgress == reader.pc \in {"contains_key", "scan"}

\* the state a block or unblock leaves, added to what the call in progress
\* has lived through
Observe(a, n) ==
    IF InProgress
    THEN [reader EXCEPT
            !.key_stable = @ /\ reader.ip \in DOMAIN a,
            !.nets_stable = @ \cap DOMAIN n,
            !.member_all = @ /\ MemberIn(a, n, reader.ip),
            !.decisions = @ \cup {DecisionIn(a, n, reader.ip)},
            !.raced = TRUE]
    ELSE reader

\* the test of the loop on the entries of a shard that compares the network
\* with the address instead of calling contains()
any_in_shard_exact(shard, ip) ==
    \E n \in shard \cap DOMAIN networks : n = HostNetwork(ip)

\* the loop over the entries of one shard: network.contains(*ip)
any_in_shard(shard, ip) ==
    \E n \in shard \cap DOMAIN networks : Contains(n, ip)

\* is_ip_blocked(ip) is called
ReaderBegin(ip) ==
    /\ filter \in RawFilters /\ ip.fam = FilterFamily
    /\ ~InProgress
    /\ reader' = Reader("contains_key", ip, {}, "pending",
                        ip \in DOMAIN addresses,
                        {k \in DOMAIN networks : Contains(k, ip)},
                        MemberIn(addresses, networks, ip),
                        {DecisionIn(addresses, networks, ip)}, FALSE)
    /\ UNCHANGED <<writer, scan, setters>>
    /\ UNCHANGED <<cache_file, filter, mode, addresses, networks, countries, last>>

\* the call returns; it leaves what it returned as the last call
ReaderReturns(out) ==
    /\ reader' = [reader EXCEPT !.pc = "returned", !.out = out]
    /\ last' = Ret("is_ip_blocked", out, {})

\* self.addresses.contains_key(ip): return on a hit, else start the iterator
ReaderContainsKey ==
    /\ reader.pc = "contains_key"
    /\ IF reader.ip \in DOMAIN addresses
       THEN ReaderReturns(Bool(mode = "BlackList"))
       ELSE /\ reader' = [reader EXCEPT
                            !.pc = "scan",
                            !.todo = {n \in IpNetworks : Contains(n, reader.ip)}]
            /\ UNCHANGED last
    /\ UNCHANGED <<writer, scan, setters>>
    /\ UNCHANGED <<cache_file, filter, mode, addresses, networks, countries>>

\* the iterator visits the shard of one more key: return on a network that
\* contains the address, else go on
ReaderScan(n) ==
    /\ reader.pc = "scan"
    /\ n \in reader.todo
    /\ IF any_in_shard({n}, reader.ip)
       THEN ReaderReturns(Bool(mode = "BlackList"))
       ELSE /\ reader' = [reader EXCEPT !.todo = @ \ {n}]
            /\ UNCHANGED last
    /\ UNCHANGED <<writer, scan, setters>>
    /\ UNCHANGED <<cache_file, filter, mode, addresses, networks, countries>>

\* the iterator is through and no network contained the address
ReaderExhausted ==
    /\ reader.pc = "scan"
    /\ reader.todo = {}
    /\ ReaderReturns(Bool(mode = "WhiteList"))
    /\ UNCHANGED <<writer, scan, setters>>
    /\ UNCHANGED <<cache_file, filter, mode, addresses, networks, countries>>

\* the key of a block or unblock is not the address key of the call in
\* progress
OtherKey(x, network) ==
    network \/ ~InProgress \/ to_ip_addr(x) # reader.ip

\* block of another call, on another key, by a caller of the filter's family
ReaderBlock(x, network) ==
    /\ filter \in RawFilters /\ FamilyOk(x)
    /\ OtherKey(x, network)
    /\ Room(RawBlockCall(x, network))
    /\ addresses' = RawBlockCall(x, network).addresses
    /\ networks' = RawBlockCall(x, network).networks
    /\ reader' = Observe(RawBlockCall(x, network).addresses,
                         RawBlockCall(x, network).networks)
    /\ UNCHANGED <<writer, scan, setters>>
    /\ UNCHANGED <<cache_file, filter, mode, countries, last>>

\* unblock of another call, on another key
ReaderUnblock(x, network) ==
    /\ filter \in RawFilters /\ FamilyOk(x)
    /\ OtherKey(x, network)
    /\ addresses' = RawUnblockCall(x, network).addresses
    /\ networks' = RawUnblockCall(x, network).networks
    /\ reader' = Observe(RawUnblockCall(x, network).addresses,
                         RawUnblockCall(x, network).networks)
    /\ UNCHANGED <<writer, scan, setters>>
    /\ UNCHANGED <<cache_file, filter, mode, countries, last>>

\* the arguments of the blocks and unblocks of the others: an address for
\* an address key, a network for a network key
KeyArgs == {x \in Args : x.ty \in {"IpAddr", "Ipv4Network"}}

\* IpFilter::<V4>::new(mode), no call in progress
InitReader ==
    /\ cache_file = NoFile
    /\ Sequential
    /\ filter = "IpFilter<V4>"
    /\ mode \in Modes
    /\ addresses = EmptyMap
    /\ networks = EmptyMap
    /\ countries = {}
    /\ last = Ret("new", "ok", {})

\* one reader at a time, step by step, and the blocks and unblocks of others
NextReader ==
    \/ \E ip \in IpAddrs : ReaderBegin(ip)
    \/ ReaderContainsKey
    \/ \E n \in IpNetworks : ReaderScan(n)
    \/ ReaderExhausted
    \/ \E x \in KeyArgs : ReaderBlock(x, x.ty = "Ipv4Network")
    \/ \E x \in KeyArgs : ReaderUnblock(x, x.ty = "Ipv4Network")

SpecReader == InitReader /\ [][NextReader]_vars

(***************************************************************************)
(* The Geo Source Loader (extract.rs, types.rs).  A table of the archive is *)
(* a sequence of rows, a row a record of the texts of its columns; a        *)
(* Result is a set: empty for Err, the value alone for Ok.                  *)
(***************************************************************************)
\* GeoData
GeoData(ip_blocks, locations) ==
    [ip_blocks |-> ip_blocks, country_locations |-> locations]

\* a row of GeoLite2-Country-Blocks-IPv4.csv
BlockRow(network, geoname_id, proxy, satellite) ==
    [network |-> network, geoname_id |-> geoname_id,
     is_anonymous_proxy |-> proxy, is_satellite_provider |-> satellite]

\* a row of GeoLite2-Country-Locations-en.csv
LocationRow(geoname_id, country_name, eu) ==
    [geoname_id |-> geoname_id, country_name |-> country_name,
     is_in_european_union |-> eu]

\* the u32 a text spells, if it spells one
ParseU32(text) == {n \in 0 .. 9 : ToString(n) = text}

\* bool_deserialize that reads every text other than "1" as false
bool_deserialize_lenient(text) == {text = "1"}

\* bool_deserialize: "1" and "0", any other text is an error
bool_deserialize(text) ==
    CASE text = "1" -> {TRUE}
      [] text = "0" -> {FALSE}
      [] OTHER -> {}

\* the deserialization of a row into an IpBlock: an empty geoname_id is
\* None, the flags are read and carried along
DeserializeIpBlock(row) ==
    IF \/ row.geoname_id # "" /\ ParseU32(row.geoname_id) = {}
       \/ bool_deserialize(row.is_anonymous_proxy) = {}
       \/ bool_deserialize(row.is_satellite_provider) = {}
    THEN {}
    ELSE {IpBlock(row.network, ParseU32(row.geoname_id))}

\* the deserialization of a row into a CountryLocation: an empty
\* country_name is None
DeserializeLocation(row) ==
    IF \/ ParseU32(row.geoname_id) = {}
       \/ bool_deserialize(row.is_in_european_union) = {}
    THEN {}
    ELSE {Location(CHOOSE n \in ParseU32(row.geoname_id) : TRUE,
                   IF row.country_name = "" THEN {} ELSE {row.country_name})}

RECURSIVE ReadBlocksSkipping(_, _)
\* the loop over the rows that skips a row it cannot deserialize
ReadBlocksSkipping(rows, ip_blocks) ==
    IF rows = <<>> THEN {ip_blocks}
    ELSE IF DeserializeIpBlock(Head(rows)) = {}
         THEN ReadBlocksSkipping(Tail(rows), ip_blocks)
         ELSE ReadBlocksSkipping(Tail(rows),
                 Append(ip_blocks,
                        CHOOSE b \in DeserializeIpBlock(Head(rows)) : TRUE))

RECURSIVE ReadBlocks(_, _)
\* the loop over the rows of the blocks table: `result?` then push
ReadBlocks(rows, ip_blocks) ==
    IF rows = <<>> THEN {ip_blocks}
    ELSE IF DeserializeIpBlock(Head(rows)) = {} THEN {}
         ELSE ReadBlocks(Tail(rows),
                 Append(ip_blocks,
                        CHOOSE b \in DeserializeIpBlock(Head(rows)) : TRUE))

RECURSIVE ReadLocations(_, _)
\* the loop over the rows of the locations table: `result?` then insert
ReadLocations(rows, locations) ==
    IF rows = <<>> THEN {locations}
    ELSE IF DeserializeLocation(Head(rows)) = {} THEN {}
         ELSE LET record == CHOOSE r \in DeserializeLocation(Head(rows)) : TRUE
              IN  ReadLocations(Tail(rows),
                                Insert(locations, record.geoname_id, record))

\* an archive: whether it opens as a zip, and its two tables (none if the
\* entry of that name is missing)
Archive(opens, blocks, locations) ==
    [opens |-> opens, blocks |-> blocks, locations |-> locations]

\* extract_and_parse_csv
extract_and_parse_csv(archive) ==
    IF ~archive.opens \/ archive.blocks = {} THEN {}
    ELSE LET ip_blocks == ReadBlocks(CHOOSE t \in archive.blocks : TRUE, <<>>)
         IN  IF ip_blocks = {} \/ archive.locations = {} THEN {}
             ELSE LET locations ==
                         ReadLocations(CHOOSE t \in archive.locations : TRUE,
                                       EmptyMap)
                  IN  IF locations = {} THEN {}
                      ELSE {GeoData(CHOOSE b \in ip_blocks : TRUE,
                                    CHOOSE l \in locations : TRUE)}

\* rows of the blocks table: two good rows; a network text that does not
\* parse; no geoname_id; a geoname_id without location; a flag that is
\* neither "0" nor "1"; a geoname_id that is no number; the first network
\* once more, with another country
GoodRowUS == BlockRow("0/0", "1", "0", "0")
GoodRowFR == BlockRow("1/1", "2", "0", "1")
BadNetworkRow == BlockRow("x", "1", "0", "0")
NoIdRow == BlockRow("1/1", "", "0", "0")
UnknownIdRow == BlockRow("1/1", "9", "0", "0")
BadBoolRow == BlockRow("1/1", "2", "yes", "0")
BadIdRow == BlockRow("1/1", "abc", "0", "0")
AgainRowFR == BlockRow("0/0", "2", "1", "0")

\* the locations table of the archives, and one with a bad flag
GoodLocations ==
    <<LocationRow("1", "United States", "0"), LocationRow("2", "France", "1"),
      LocationRow("3", "", "0")>>
BadLocations ==
    <<LocationRow("1", "United States", "0"), LocationRow("2", "France", "oui")>>

\* the archives a filter is built from
Archives ==
    {Archive(FALSE, {}, {}),
     Archive(TRUE, {}, {GoodLocations}),
     Archive(TRUE, {<<GoodRowUS>>}, {}),
     Archive(TRUE, {<<>>}, {<<>>}),
     Archive(TRUE, {<<GoodRowUS, GoodRowFR>>}, {GoodLocations}),
     Archive(TRUE, {<<GoodRowUS, AgainRowFR>>}, {GoodLocations}),
     Archive(TRUE, {<<BadNetworkRow, NoIdRow, UnknownIdRow, GoodRowUS>>},
             {GoodLocations}),
     Archive(TRUE, {<<GoodRowUS, BadBoolRow, GoodRowFR>>}, {GoodLocations}),
     Archive(TRUE, {<<BadIdRow, GoodRowUS>>}, {GoodLocations}),
     Archive(TRUE, {<<GoodRowUS>>}, {BadLocations})}

(***************************************************************************)
(* The Compacted Cache Codec (compress.rs).  A file is a sequence of        *)
(* tokens: the gzip header, then what bincode writes: a length before a     *)
(* sequence or a map, a tag before the value of an Option.                  *)
(***************************************************************************)
\* the orders in which a HashMap may hand out its keys
Orders(keys) ==
    {order \in [1 .. Cardinality(keys) -> keys] :
        \A i, j \in DOMAIN order : order[i] = order[j] => i = j}

\* Encode for Option<u32>
EncodeOptionU32(opt) ==
    IF opt = {} THEN <<"0">> ELSE <<"1", ToString(CHOOSE n \in opt : TRUE)>>

\* Encode for Option<String>
EncodeOptionString(opt) ==
    IF opt = {} THEN <<"0">> ELSE <<"1", CHOOSE t \in opt : TRUE>>

\* Encode for IpBlock that writes None for every geoname_id
EncodeIpBlockNoId(block) == <<block.network>> \o <<"0">>

\* Encode for IpBlock
EncodeIpBlock(block) == <<block.network>> \o EncodeOptionU32(block.geoname_id)

\* Encode for CountryLocation
EncodeLocation(location) ==
    <<ToString(location.geoname_id)>> \o EncodeOptionString(location.country_name)

RECURSIVE EncodeBlocks(_)
\* Encode for the elements of Vec<IpBlock>
EncodeBlocks(blocks) ==
    IF blocks = <<>> THEN <<>>
    ELSE EncodeIpBlock(Head(blocks)) \o EncodeBlocks(Tail(blocks))

RECURSIVE EncodeLocations(_, _)
\* Encode for the entries of HashMap<u32, CountryLocation>, in the order the
\* map hands them out
EncodeLocations(locations, order) ==
    IF order = <<>> THEN <<>>
    ELSE <<ToString(Head(order))>> \o EncodeLocation(locations[Head(order)])
            \o EncodeLocations(locations, Tail(order))

\* bincode::encode_into_std_write of a GeoData
Encode(data, order) ==
    <<ToString(Len(data.ip_blocks))>> \o EncodeBlocks(data.ip_blocks)
       \o <<ToString(Len(order))>>
       \o EncodeLocations(data.country_locations, order)

\* what a decoder returns: the value and the tokens after it, or an error
Decoded(value, rest) == [ok |-> TRUE, value |-> value, rest |-> rest]

DecodeError == [ok |-> FALSE, value |-> {}, rest |-> <<>>]

\* Decode for u32 and for a length
DecodeU32(bytes) ==
    IF bytes = <<>> \/ ParseU32(Head(bytes)) = {} THEN DecodeError
    ELSE Decoded(CHOOSE n \in ParseU32(Head(bytes)) : TRUE, Tail(bytes))

\* Decode for String
DecodeString(bytes) ==
    IF bytes = <<>> THEN DecodeError ELSE Decoded(Head(bytes), Tail(bytes))

\* Decode for Option<u32>
DecodeOptionU32(bytes) ==
    IF bytes = <<>> THEN DecodeError
    ELSE IF Head(bytes) = "0" THEN Decoded({}, Tail(bytes))
    ELSE IF Head(bytes) = "1"
         THEN IF DecodeU32(Tail(bytes)).ok
              THEN Decoded({DecodeU32(Tail(bytes)).value},
                           DecodeU32(Tail(bytes)).rest)
              ELSE DecodeError
    ELSE DecodeError

\* Decode for Option<String>
DecodeOptionString(bytes) ==
    IF bytes = <<>> THEN DecodeError
    ELSE IF Head(bytes) = "0" THEN Decoded({}, Tail(bytes))
    ELSE IF Head(bytes) = "1"
         THEN IF DecodeString(Tail(bytes)).ok
              THEN Decoded({DecodeString(Tail(bytes)).value},
                           DecodeString(Tail(bytes)).rest)
              ELSE DecodeError
    ELSE DecodeError

\* Decode for IpBlock
DecodeIpBlock(bytes) ==
    LET network == DecodeString(bytes)
    IN  IF ~network.ok THEN DecodeError
        ELSE LET geoname_id == DecodeOptionU32(network.rest)
             IN  IF ~geoname_id.ok THEN DecodeError
                 ELSE Decoded(IpBlock(network.value, geoname_id.value),
                              geoname_id.rest)

\* Decode for CountryLocation
DecodeLocation(bytes) ==
    LET geoname_id == DecodeU32(bytes)
    IN  IF ~geoname_id.ok THEN DecodeError
        ELSE LET country_name == DecodeOptionString(geoname_id.rest)
             IN  IF ~country_name.ok THEN DecodeError
                 ELSE Decoded(Location(geoname_id.value, country_name.value),
                              country_name.rest)

RECURSIVE DecodeBlocks(_, _, _)
\* Decode for the n elements of Vec<IpBlock>
DecodeBlocks(bytes, n, blocks) ==
    IF n = 0 THEN Decoded(blocks, bytes)
    ELSE LET block == DecodeIpBlock(bytes)
         IN  IF ~block.ok THEN DecodeError
             ELSE DecodeBlocks(block.rest, n - 1, Append(blocks, block.value))

RECURSIVE DecodeLocations(_, _, _)
\* Decode for the n entries of HashMap<u32, CountryLocation>
DecodeLocations(bytes, n, locations) ==
    IF n = 0 THEN Decoded(locations, bytes)
    ELSE LET key == DecodeU32(bytes)
         IN  IF ~key.ok THEN DecodeError
             ELSE LET location == DecodeLocation(key.rest)
                  IN  IF ~location.ok THEN DecodeError
                      ELSE DecodeLocations(location.rest, n - 1,
                              Insert(locations, key.value, location.value))

\* bincode::decode_from_reader of a GeoData; what follows the value in the
\* stream is not read
Decode(bytes) ==
    LET len == DecodeU32(bytes)
    IN  IF ~len.ok THEN {}
        ELSE LET blocks == DecodeBlocks(len.rest, len.value, <<>>)
             IN  IF ~blocks.ok THEN {}
                 ELSE LET n == DecodeU32(blocks.rest)
                      IN  IF ~n.ok THEN {}
                          ELSE LET locations ==
                                      DecodeLocations(n.rest, n.value, EmptyMap)
                               IN  IF ~locations.ok THEN {}
                                   ELSE {GeoData(blocks.value, locations.value)}

\* GzEncoder: the header, then the stream
GzEncode(bytes) == <<"gz">> \o bytes

\* GzDecoder: the stream of a file that starts with the header
GzDecode(file) ==
    IF file = <<>> \/ Head(file) # "gz" THEN {} ELSE {Tail(file)}

\* save_compressed_data without error: the files it may write
save_compressed_data(data) ==
    {GzEncode(Encode(data, order)) : order \in Orders(DOMAIN data.country_locations)}

\* load_compressed_data
load_compressed_data(file) ==
    IF GzDecode(file) = {} THEN {}
    ELSE Decode(CHOOSE bytes \in GzDecode(file) : TRUE)

(***************************************************************************)
(* GeoIpv4Filter::new: from the source archive or from the cache file       *)
(* geo_ip_data.bin.gz (geo_filter.rs).                                      *)
(***************************************************************************)
\* how the disk takes the write of the cache file: File::create fails, the
\* write after it fails, or both succeed
Disks == {"ok", "no_create", "no_write"}

\* what is left of a file whose write failed
PartialFiles == {<<>>, <<"gz">>}

\* how a call of new ends: Ok or Err, the cache file it leaves, where it took
\* the data from, and the data
NewOutcome(out, cache, from, data) ==
    [out |-> out, cache_file |-> cache, from |-> from, data |-> data]

\* new that parses the archive and writes the cache whether the cache file
\* exists or not
new_always_parse(cache, archive, disk) ==
    IF extract_and_parse_csv(archive) = {}
    THEN {NewOutcome("err", cache, "archive", {})}
    ELSE {NewOutcome("ok", {file}, "archive", extract_and_parse_csv(archive)) :
            file \in save_compressed_data(
                        CHOOSE d \in extract_and_parse_csv(archive) : TRUE)}

\* new that parses the archive when the cache file does not load
new_reparse_on_corrupt(cache, archive, disk) ==
    IF cache # NoFile /\ load_compressed_data(CHOOSE f \in cache : TRUE) # {}
    THEN {NewOutcome("ok", cache, "cache",
                     load_compressed_data(CHOOSE f \in cache : TRUE))}
    ELSE new_always_parse(cache, archive, disk)

\* the first statement of GeoIpv4Filter::new: the GeoData, or the error that
\* `?` returns
new(cache, archive, disk) ==
    IF cache = NoFile
    THEN IF extract_and_parse_csv(archive) = {}
         THEN {NewOutcome("err", cache, "archive", {})}
         ELSE CASE disk = "no_create" ->
                     {NewOutcome("err", NoFile, "archive", {})}
                [] disk = "no_write" ->
                     {NewOutcome("err", {file}, "archive", {}) :
                        file \in PartialFiles}
                [] OTHER ->
                     {NewOutcome("ok", {file}, "archive",
                                 extract_and_parse_csv(archive)) :
                        file \in save_compressed_data(
                                    CHOOSE d \in extract_and_parse_csv(archive) : TRUE)}
    ELSE IF load_compressed_data(CHOOSE f \in cache : TRUE) = {}
         THEN {NewOutcome("err", cache, "cache", {})}
         ELSE {NewOutcome("ok", cache, "cache",
                          load_compressed_data(CHOOSE f \in cache : TRUE))}

\* a call of GeoIpv4Filter::new(m, path): on Ok the filter it returns, on Err
\* no filter
New(m, archive, disk) ==
    /\ \E o \in new(cache_file, archive, disk) :
          /\ cache_file' = o.cache_file
          /\ last' = Ret("new", o.out, {[from |-> o.from, archive |-> archive]})
          /\ IF o.out = "ok"
             THEN /\ filter' = "GeoIpv4Filter"
                  /\ networks' = BuildIndexOf(CHOOSE d \in o.data : TRUE)
             ELSE /\ filter' = "none"
                  /\ networks' = EmptyMap
    /\ mode' = m
    /\ addresses' = EmptyMap
    /\ countries' = {}
    /\ UNCHANGED calls

\* files that are no cache: an empty file, a file without gzip header, a
\* cache cut short
CorruptFiles == {<<>>, <<"0", "0">>, <<"gz", "1", "0/0">>}

\* before the first construction: no cache file, or a corrupt one
InitNew ==
    /\ cache_file \in {NoFile} \cup {{file} : file \in CorruptFiles}
    /\ Sequential
    /\ filter = "none"
    /\ mode = "BlackList"
    /\ addresses = EmptyMap
    /\ networks = EmptyMap
    /\ countries = {}
    /\ last = Ret("start", "ok", {})

NextNew ==
    \E m \in Modes, archive \in Archives, disk \in Disks : New(m, archive, disk)

SpecNew == InitNew /\ [][NextNew]_vars

(***************************************************************************)
(* The read calls of both filters, with the order in which the iterator of *)
(* the networks map hands out its entries kept as part of the store: the   *)
(* order is what the map's layout makes it, it changes when a key is       *)
(* inserted or removed and at no other time.                               *)
(***************************************************************************)
\* the stores of a filter and its mode
Store(a, n, c, m, order) ==
    [addresses |-> a, networks |-> n, countries |-> c, mode |-> m,
     scan |-> order]

\* what a read call leaves and returns: the stores, how the call ended (the
\* bool as text, "some" / "none", "panic") and the Option it returned
Returned(store, out, ret) == [store |-> store, out |-> out, ret |-> ret]

\* a read call that leaves the stores as they are
Reads(out, ret) ==
    Returned(Store(addresses, networks, countries, mode, scan), out, ret)

RECURSIVE ScanFirst(_, _)
\* self.networks.iter().find(|entry| entry.key().contains(ip)) over the
\* entries in the order of the iterator
ScanFirst(order, ip) ==
    IF order = <<>> THEN {}
    ELSE IF Contains(Head(order), ip) THEN {networks[Head(order)]}
    ELSE ScanFirst(Tail(order), ip)

\* GeoIpv4Filter::get_country_for_ip on the store as it is laid out
get_country_scan(ip) ==
    IF ip \in DOMAIN addresses THEN {addresses[ip]} ELSE ScanFirst(scan, ip)

\* get_country_for_ip that keeps what the scan found as an override
get_country_read_memo(ip) ==
    IF ip \in DOMAIN addresses \/ ScanFirst(scan, ip) = {}
    THEN Reads(IF get_country_scan(ip) = {} THEN "none" ELSE "some",
               get_country_scan(ip))
    ELSE Returned(Store(Insert(addresses, ip,
                               CHOOSE c \in ScanFirst(scan, ip) : TRUE),
                        networks, countries, mode, scan),
                  "some", ScanFirst(scan, ip))

\* a call of get_country_for_ip
get_country_read(ip) ==
    Reads(IF get_country_scan(ip) = {} THEN "none" ELSE "some",
          get_country_scan(ip))

\* a call of GeoIpv4Filter::is_country_blocked
is_country_blocked_read(name) == Reads(Bool(is_country_blocked(name)), {})

\* a call of GeoIpv4Filter::is_ip_blocked on the store as it is laid out
is_ip_blocked_read(ip) ==
    IF get_country_scan(ip) = {} THEN Reads("false", {})
    ELSE LET country == CHOOSE c \in get_country_scan(ip) : TRUE
         IN  IF country.country_name = {} THEN Reads("panic", {})
             ELSE Reads(Bool(is_country_blocked(
                                CHOOSE n \in country.country_name : TRUE)), {})

\* a call of NetworkFilter::is_blocked of the filter at hand
is_blocked_read(x) ==
    IF filter = "GeoIpv4Filter"
    THEN IF to_ip_addr(x).fam = "V4"
         THEN Reads(NotOut(is_ip_blocked_read(to_ip_addr(x)).out), {})
         ELSE Reads("false", {})
    ELSE Reads(RawIsBlockedCall(x).out, {})

\* the step of a read call: the stores and the record of the call, with its
\* argument, become what the call leaves
Commit(op, arg, r) ==
    /\ addresses' = r.store.addresses
    /\ networks' = r.store.networks
    /\ countries' = r.store.countries
    /\ mode' = r.store.mode
    /\ scan' = r.store.scan
    /\ last' = Ret(op, r.out, {[arg |-> arg, ret |-> r.ret]})
    /\ UNCHANGED <<writer, reader, setters, cache_file, filter>>

ReadsGetCountryForIp(ip) ==
    /\ filter = "GeoIpv4Filter"
    /\ Commit("get_country_for_ip", ip, get_country_read(ip))

ReadsIsCountryBlocked(name) ==
    /\ filter = "GeoIpv4Filter"
    /\ Commit("is_country_blocked", name, is_country_blocked_read(name))

ReadsIsIpBlocked(ip) ==
    /\ filter = "GeoIpv4Filter"
    /\ Commit("is_ip_blocked", ip, is_ip_blocked_read(ip))

ReadsIsBlocked(x) == Commit("is_blocked", x, is_blocked_read(x))

\* the orders the iterator may have after a call has left the networks map
\* n: the order it had when no key came or went, any order otherwise
Reordered(n) ==
    IF DOMAIN n = DOMAIN networks THEN {scan} ELSE Orders(DOMAIN n)

\* block or unblock between the reads, with the outcome o
Mutation(op, o) ==
    /\ addresses' = o.addresses
    /\ networks' = o.networks
    /\ scan' \in Reordered(o.networks)
    /\ last' = Ret(op, o.out, {})
    /\ UNCHANGED <<writer, reader, setters, cache_file, filter, mode, countries>>

\* a call of block between the reads; on the geo filter the networks are
\* those of the construction, less the ones unblock has removed
ReadsBlock(x, network) ==
    IF filter = "GeoIpv4Filter"
    THEN /\ ~network
         /\ \E o \in GeoBlockCall(x, network) :
               GeoRoom(o) /\ Mutation("block", o)
    ELSE Room(RawBlockCall(x, network))
            /\ Mutation("block", RawBlockCall(x, network))

\* a call of unblock between the reads
ReadsUnblock(x, network) ==
    IF filter = "GeoIpv4Filter"
    THEN Mutation("unblock", GeoUnblockCall(x, network))
    ELSE Mutation("unblock", RawUnblockCall(x, network))

\* a call of set_countries between the reads
ReadsSetCountries(names) ==
    /\ filter = "GeoIpv4Filter"
    /\ countries' = set_countries(names)
    /\ last' = Ret("set_countries", "ok", {})
    /\ UNCHANGED <<calls, cache_file, filter, mode, addresses, networks>>

\* a filter of either kind after its construction, the networks map in one
\* of the orders its iterator may have
InitReads ==
    /\ cache_file = NoFile
    /\ writer = Idle /\ reader = NoReader /\ setters = NoSetters
    /\ filter \in RawFilters \cup {"GeoIpv4Filter"}
    /\ mode \in Modes
    /\ IF filter = "GeoIpv4Filter"
       THEN \E blocks \in GeoDatas : networks = BuildIndex(blocks)
       ELSE networks = EmptyMap
    /\ scan \in Orders(DOMAIN networks)
    /\ addresses = EmptyMap
    /\ countries = {}
    /\ last = Ret("new", "ok", {})

NextReads ==
    \/ \E ip \in AddrVals : ReadsGetCountryForIp(V4(ip))
    \/ \E name \in CountryNames : ReadsIsCountryBlocked(name)
    \/ \E ip \in AddrVals : ReadsIsIpBlocked(V4(ip))
    \/ \E x \in KeyArgs : ReadsIsBlocked(x)
    \/ \E x \in KeyArgs : ReadsBlock(x, x.ty = "Ipv4Network")
    \/ \E x \in KeyArgs : ReadsUnblock(x, x.ty = "Ipv4Network")
    \/ \E names \in CountryLists : ReadsSetCountries(names)

SpecReads == InitReads /\ [][NextReads]_vars

(***************************************************************************)
(* Properties of the raw filter.                                           *)
(***************************************************************************)
\* the address is a key of the addresses map or inside a key of the networks map
RawMember(ip) ==
    \/ ip \in DOMAIN addresses
    \/ \E n \in DOMAIN networks : Contains(n, ip)

\* the argument is of the family the filter was instantiated for
OfFilterFamily(x) ==
    \/ filter = "IpFilter<V4>" /\ is_ipv4(x)
    \/ filter = "IpFilter<V6>" /\ ~is_ipv4(x)

\* the map m2 is m with the value of k set to v, and nothing else changed
IsOverwrite(m2, m, k, v) ==
    /\ DOMAIN m2 = DOMAIN m
    /\ m2[k] = v
    /\ \A j \in DOMAIN m : j # k => m2[j] = m[j]

\* C1: mode polarity. In every state a raw filter reaches, is_blocked with an
\* address of its family returns, in BlackList mode, whether the address is a
\* key of the addresses map or inside a key of the networks map, and in
\* WhiteList mode the negation of that.
C1_ModePolarity ==
    filter \in RawFilters =>
      \A x \in IpAddrExts :
         OfFilterFamily(x) =>
            RawIsBlockedCall(x).out =
               Bool(IF mode = "BlackList" THEN RawMember(to_ip_addr(x))
                                          ELSE ~RawMember(to_ip_addr(x)))

\* C1 happens: a WhiteList filter whose only entries are networks has answered
\* "not blocked" for an address inside one of them
C1_Witness ==
    /\ mode = "WhiteList"
    /\ last.op = "is_blocked" /\ last.out = "false"
    /\ DOMAIN addresses = {}
    /\ DOMAIN networks # {}

\* C8: idempotence of the raw filter. In every state a raw filter reaches,
\* unblock of an absent key ends without error and leaves both maps as they
\* are, and add_ip, add_network or block on a key that is present leaves the
\* key set as it is, sets the key's metadata to that of the later call and
\* touches no other entry.
C8_Idempotence ==
    filter \in RawFilters =>
      /\ \A x \in IpAddrExts :
           OfFilterFamily(x) =>
              /\ to_ip_addr(x) \notin DOMAIN addresses =>
                   /\ RawUnblockCall(x, FALSE).out = "ok"
                   /\ RawUnblockCall(x, FALSE).addresses = addresses
                   /\ RawUnblockCall(x, FALSE).networks = networks
              /\ to_network(x) \notin DOMAIN networks =>
                   /\ RawUnblockCall(x, TRUE).out = "ok"
                   /\ RawUnblockCall(x, TRUE).addresses = addresses
                   /\ RawUnblockCall(x, TRUE).networks = networks
              /\ to_ip_addr(x) \in DOMAIN addresses =>
                   /\ IsOverwrite(RawBlockCall(x, FALSE).addresses, addresses,
                                  to_ip_addr(x), BlockedMeta)
                   /\ RawBlockCall(x, FALSE).networks = networks
              /\ to_network(x) \in DOMAIN networks =>
                   /\ IsOverwrite(RawBlockCall(x, TRUE).networks, networks,
                                  to_network(x), BlockedMeta)
                   /\ RawBlockCall(x, TRUE).addresses = addresses
      /\ \A ip \in DOMAIN addresses, meta \in IpMetaDatas :
           IsOverwrite(add_ip(ip, meta), addresses, ip, meta)
      /\ \A net \in DOMAIN networks, meta \in IpMetaDatas :
           IsOverwrite(add_network(net, meta), networks, net, meta)

\* C8 happens: an address blocked with the metadata of block has been added
\* again with other metadata, and is the one entry of the addresses map
C8_Witness ==
    /\ last.op = "add_ip"
    /\ last.old = {BlockedMeta}
    /\ Cardinality(DOMAIN addresses) = 1
    /\ \A k \in DOMAIN addresses : addresses[k] # BlockedMeta

\* C9: a raw filter called with an address of the other family panics: in
\* every state a raw filter reaches, block, unblock and is_blocked with such
\* an address end in the panic, return no decision and leave the addresses
\* and networks maps as they are.
C9_TypeMismatchPanics ==
    filter \in RawFilters =>
      \A x \in IpAddrExts :
         ~OfFilterFamily(x) =>
            \A o \in {RawBlockCall(x, TRUE), RawBlockCall(x, FALSE),
                      RawUnblockCall(x, TRUE), RawUnblockCall(x, FALSE),
                      RawIsBlockedCall(x)} :
               /\ o.out = "panic"
               /\ o.addresses = addresses
               /\ o.networks = networks

\* C9 happens: an IpFilter<V6> that holds entries has panicked in block
C9_Witness ==
    /\ filter = "IpFilter<V6>"
    /\ last.op = "block" /\ last.out = "panic"
    /\ Entries > 0

(***************************************************************************)
(* Properties of the geo filter.                                           *)
(***************************************************************************)
Ipv4Addrs == {V4(v) : v \in AddrVals}

\* the address lies between the first and the last address of the network
InRange(n, ip) ==
    /\ n.fam = ip.fam
    /\ NetworkAddr(n).val <= ip.val
    /\ ip.val <= BroadcastAddr(n).val

\* the stored networks the address lies in
Covering(ip) == {n \in DOMAIN networks : InRange(n, ip)}

\* the address has no override and lies in no stored network
Unresolved(ip) == ip \notin DOMAIN addresses /\ Covering(ip) = {}

\* the name of a location that has one
NameOf(c) == CHOOSE n \in c.country_name : TRUE

\* membership of a name in the Blocked-Country Set under the mode
BlockedByMode(name) ==
    IF mode = "BlackList" THEN name \in countries ELSE ~(name \in countries)

\* the names of a list
NamesOf(names) == {names[i] : i \in DOMAIN names}

\* C2: the decision API of a BlackList geo filter. After set_countries(["United
\* States"]), is_blocked returns true for every address that resolves to the
\* United States and false for an address that lies in no stored network; in
\* general it returns true exactly when the address resolves to a country
\* whose name is in the Blocked-Country Set.
C2_GeoIsBlockedDecision ==
    (filter = "GeoIpv4Filter" /\ mode = "BlackList"
        /\ countries = {"United States"}) =>
      \A ip \in Ipv4Addrs :
         /\ get_country_for_ip(ip) = {UnitedStates} =>
               GeoIsBlockedCall([ty |-> "IpAddr", ip |-> ip]) = {"true"}
         /\ Unresolved(ip) =>
               GeoIsBlockedCall([ty |-> "IpAddr", ip |-> ip]) = {"false"}
         /\ \A c \in get_country_for_ip(ip) :
               c.country_name # {} =>
                  Bool(NameOf(c) \in countries)
                     \in GeoIsBlockedCall([ty |-> "IpAddr", ip |-> ip])

\* C3: the geo filter fails open. In both modes and for every content of the
\* Blocked-Country Set, is_ip_blocked returns false for every address that has
\* no override and lies in no stored network.
C3_FailsOpen ==
    filter = "GeoIpv4Filter" =>
      \A ip \in Ipv4Addrs : Unresolved(ip) => is_ip_blocked(ip) = {"false"}

\* C3 happens: a WhiteList filter with an empty set, which blocks every
\* country, has answered "not blocked" for an address while some address is
\* unresolved
C3_Witness ==
    /\ filter = "GeoIpv4Filter" /\ mode = "WhiteList" /\ countries = {}
    /\ last.op = "is_ip_blocked" /\ last.out = "false"
    /\ \E ip \in Ipv4Addrs : Unresolved(ip)

\* C4: for an address that resolves to a country named n, is_ip_blocked is
\* is_country_blocked(n): in BlackList mode whether n is in the
\* Blocked-Country Set, by exact match, and in WhiteList mode whether it is
\* not.
C4_ResolvedDecision ==
    filter = "GeoIpv4Filter" =>
      /\ \A name \in CountryNames \cup {"Norway"} :
            is_country_blocked(name) = BlockedByMode(name)
      /\ \A ip \in Ipv4Addrs :
            /\ \A c \in get_country_for_ip(ip) :
                  c.country_name # {} =>
                     Bool(BlockedByMode(NameOf(c))) \in is_ip_blocked(ip)
            /\ \A out \in is_ip_blocked(ip) :
                  (get_country_for_ip(ip) # {} /\ out # "panic") =>
                     \E c \in get_country_for_ip(ip) :
                        /\ c.country_name # {}
                        /\ out = Bool(BlockedByMode(NameOf(c)))

\* C4 happens: a WhiteList filter in which every address resolves and whose
\* set holds a name has answered "not blocked"
C4_Witness ==
    /\ filter = "GeoIpv4Filter" /\ mode = "WhiteList"
    /\ last.op = "is_ip_blocked" /\ last.out = "false"
    /\ countries # {}
    /\ \A ip \in Ipv4Addrs : get_country_for_ip(ip) # {}

\* C5: set_countries(L) is a total replacement. Whatever the set holds, the
\* set the call leaves is the set of the names of L; so in BlackList mode,
\* once the call has returned, an address that resolves to a country outside
\* L is not blocked and one that resolves to a country of L is blocked.
C5_TotalReplacement ==
    filter = "GeoIpv4Filter" =>
      /\ \A names \in CountryLists : set_countries(names) = NamesOf(names)
      /\ (last.op = "set_countries" /\ mode = "BlackList") =>
            \A ip \in Ipv4Addrs :
               \A c \in get_country_for_ip(ip) :
                  c.country_name # {} =>
                     Bool(NameOf(c) \in countries) \in is_ip_blocked(ip)

\* C5 happens: set_countries has replaced {"United States"} by {"France"}
\* while an address resolves to the United States alone
C5_Witness ==
    /\ filter = "GeoIpv4Filter" /\ mode = "BlackList"
    /\ last.op = "set_countries" /\ last.old = {{"United States"}}
    /\ countries = {"France"}
    /\ \E ip \in Ipv4Addrs : get_country_for_ip(ip) = {UnitedStates}

\* C6: override precedence. In every state in which the override map holds
\* an entry a -> o, get_country_for_ip(a) returns o, whichever stored networks
\* contain a and whichever countries they map to.
C6_OverridePrecedence ==
    filter = "GeoIpv4Filter" =>
      \A ip \in DOMAIN addresses : get_country_for_ip(ip) = {addresses[ip]}

\* C6 happens: get_country_for_ip has returned the override of an address that
\* lies in a stored network of another country
C6_Witness ==
    /\ filter = "GeoIpv4Filter"
    /\ last.op = "get_country_for_ip"
    /\ \E ip \in DOMAIN addresses :
          /\ last.old = {addresses[ip]}
          /\ Covering(ip) # {}
          /\ \A n \in DOMAIN networks : networks[n] # addresses[ip]

\* C7: network resolution. For an address without override,
\* get_country_for_ip returns the country of a stored network the address lies
\* in, the first and the last address of a network included, and returns
\* none if and only if the address lies in no stored network.
C7_NetworkResolution ==
    filter = "GeoIpv4Filter" =>
      /\ \A ip \in Ipv4Addrs \ DOMAIN addresses :
            /\ \A c \in get_country_for_ip(ip) :
                  \E n \in Covering(ip) : networks[n] = c
            /\ (get_country_for_ip(ip) = {}) <=> (Covering(ip) = {})
      /\ \A n \in DOMAIN networks :
            \A ip \in {NetworkAddr(n), BroadcastAddr(n)} \ DOMAIN addresses :
               \E m \in Covering(ip) : networks[m] \in get_country_for_ip(ip)

\* C7 happens: without any override, get_country_for_ip has returned the
\* country that only one stored network, of more than one address, maps to
C7_Witness ==
    /\ filter = "GeoIpv4Filter"
    /\ DOMAIN addresses = {}
    /\ last.op = "get_country_for_ip" /\ last.out = "some"
    /\ \E n \in DOMAIN networks :
          /\ n.prefix < AddrBits
          /\ last.old = {networks[n]}
          /\ \A m \in DOMAIN networks : m # n => networks[m] # networks[n]

\* C10: the geo filter called with an IPv6 address panics: block, unblock and
\* is_blocked end in the panic instead of returning a decision or doing
\* nothing.
C10_GeoTypeMismatchPanics ==
    filter = "GeoIpv4Filter" =>
      \A x \in IpAddrExts :
         ~is_ipv4(x) =>
            /\ \A network \in BOOLEAN :
                  /\ \A o \in GeoBlockCall(x, network) : o.out = "panic"
                  /\ GeoUnblockCall(x, network).out = "panic"
            /\ GeoIsBlockedCall(x) = {"panic"}

(***************************************************************************)
(* Properties of the Filter service and of the client-address extraction.  *)
(***************************************************************************)
\* C11: the Filter service in front of a BlackList geo filter whose set is
\* not empty answers 403 without calling the inner service for a request
\* whose client address resolves to a country of the set, and calls the
\* inner service exactly once and returns its 200 for a request whose client
\* address resolves to a country outside the set.
C11_ServiceAcceptReject ==
    (filter = "GeoIpv4Filter" /\ mode = "BlackList" /\ countries # {}) =>
      \A ip \in Ipv4Addrs :
         \A c \in get_country_for_ip(ip) :
            (get_country_for_ip(ip) = {c} /\ c.country_name # {}) =>
               FilterCall({ip}) =
                  {IF NameOf(c) \in countries
                   THEN [status |-> "403", inner_calls |-> 0]
                   ELSE [status |-> "200", inner_calls |-> 1]}

\* C12: a request whose client address is known but has no override and lies
\* in no stored network is forwarded to the inner service and answered 200.
C12_ServiceForwardsUnresolved ==
    filter = "GeoIpv4Filter" =>
      \A ip \in Ipv4Addrs :
         Unresolved(ip) =>
            FilterCall({ip}) = {[status |-> "200", inner_calls |-> 1]}

\* the request without any header, peer address or host
BareRequest ==
    [headers |-> [h \in HeaderNames |-> {}], connect_info |-> {}, host |-> {}]

\* C13: a request from which no client address can be determined (no proxy
\* header, no connection info in the extensions) is forwarded to the inner
\* service and answered 200.
C13_ServiceForwardsNoIp ==
    filter = "GeoIpv4Filter" =>
      /\ FilterCall({}) = {[status |-> "200", inner_calls |-> 1]}
      /\ \A feature \in {"axum", "hyper"} :
            AddConnectionInfoCall(BareRequest, feature) =
               {[status |-> "200", inner_calls |-> 1]}

\* the documented priority of a header, 1 the highest
Rank(header) ==
    CASE header = "CF-Connecting-IP" -> 1
      [] header = "True-Client-IP" -> 2
      [] header = "X-Real-IP" -> 3
      [] header = "X-Forwarded-For" -> 4

\* the headers of a request that carry an address
Carrying(req) == {h \in HeaderNames : HeaderIp(req, h) # {}}

\* C14: extract_ip takes the address from the header of highest priority
\* among those that carry one, in the order CF-Connecting-IP,
\* True-Client-IP, X-Real-IP, X-Forwarded-For, and from a comma-separated
\* value it takes the first element of the list.
C14_HeaderPriority ==
    (last.op = "extract_ip" /\ last.out = "ok") =>
      \A r \in last.old :
         Carrying(r.req) # {} =>
            \E h \in Carrying(r.req) :
               /\ \A g \in Carrying(r.req) : Rank(h) <= Rank(g)
               /\ r.ip = HeaderIp(r.req, h)
               /\ r.req.headers[h] = {<<"1">>} => r.ip = {V4(1)}
               /\ r.req.headers[h] = {<<" ", "0", ",", " ", "1">>} =>
                     r.ip = {V4(0)}

\* C14 happens: extract_ip has returned the first element of the list of
\* True-Client-IP although X-Forwarded-For carries another address
C14_Witness ==
    /\ last.op = "extract_ip"
    /\ \E r \in last.old :
          /\ r.req.headers["CF-Connecting-IP"] = {}
          /\ r.req.headers["True-Client-IP"] = {<<" ", "0", ",", " ", "1">>}
          /\ r.req.headers["X-Forwarded-For"] = {<<"1">>}
          /\ r.ip = {V4(0)}

(***************************************************************************)
(* Properties of set_countries under concurrent readers.                   *)
(***************************************************************************)
\* C15: while one call set_countries(L) is in progress and no other writer
\* runs, the Blocked-Country Set a reader can observe is a subset of the old
\* set or a subset of the names of L, and once the call has returned the set
\* is the names of L.
C15_PartialUpdate ==
    filter = "GeoIpv4Filter" =>
      /\ writer.pc \in {"clear", "insert"} =>
            \/ countries \subseteq writer.old
            \/ countries \subseteq NamesOf(writer.names)
      /\ writer.pc = "returned" => countries = NamesOf(writer.names)

\* C15 happens: a reader has asked while set_countries had cleared {"France"}
\* and inserted the first of the two names of its list
C15_Witness ==
    /\ writer.pc = "insert"
    /\ writer.old = {"France"}
    /\ writer.names = <<"United States", "france">>
    /\ countries = {"United States"}
    /\ last.op = "is_country_blocked"

(***************************************************************************)
(* Properties of the construction of the geo filter.                       *)
(***************************************************************************)
\* the file of a cache that exists
FileOf(cache) == CHOOSE file \in cache : TRUE

\* the column is a boolean literal
IsBoolLiteral(text) == text \in {"0", "1"}

\* the column is a number
IsNumber(text) == \E n \in 0 .. 9 : ToString(n) = text

\* the row of the blocks table does not deserialize
BlockRowFails(row) ==
    \/ ~IsBoolLiteral(row.is_anonymous_proxy)
    \/ ~IsBoolLiteral(row.is_satellite_provider)
    \/ row.geoname_id # "" /\ ~IsNumber(row.geoname_id)

\* the row of the locations table does not deserialize
LocationRowFails(row) ==
    ~IsBoolLiteral(row.is_in_european_union) \/ ~IsNumber(row.geoname_id)

\* the rows of a table of the archive, none if the entry is missing
RowsOf(table) == IF table = {} THEN <<>> ELSE CHOOSE rows \in table : TRUE

\* the archive opens and holds both tables
HasTables(archive) ==
    archive.opens /\ archive.blocks # {} /\ archive.locations # {}

\* the loader fails on the archive: it does not open, a table is missing, or
\* a row does not deserialize
LoaderFails(archive) ==
    \/ ~HasTables(archive)
    \/ \E i \in DOMAIN RowsOf(archive.blocks) :
          BlockRowFails(RowsOf(archive.blocks)[i])
    \/ \E i \in DOMAIN RowsOf(archive.locations) :
          LocationRowFails(RowsOf(archive.locations)[i])

C17_CorruptCacheFails ==
    /\ (cache_file # NoFile /\ load_compressed_data(FileOf(cache_file)) = {}) =>
          \A archive \in Archives, disk \in Disks :
             new(cache_file, archive, disk) =
                {[out |-> "err", cache_file |-> cache_file, from |-> "cache",
                  data |-> {}]}
    /\ (last.op = "new" /\ last.out = "err") =>
          filter = "none" /\ networks = EmptyMap

\* C17 happens: new has failed on a corrupt cache file although its archive
\* loads
C17_Witness ==
    /\ last.op = "new" /\ last.out = "err"
    /\ \E r \in last.old : r.from = "cache" /\ ~LoaderFails(r.archive)
    /\ filter = "none"
    /\ cache_file # NoFile
    /\ load_compressed_data(FileOf(cache_file)) = {}

\* C18: a failing loader returns an error and no GeoData, and new, without
\* cache file, then fails before it writes the cache: no cache file, no
\* filter.
C18_LoaderFailure ==
    /\ \A archive \in Archives :
          LoaderFails(archive) =>
             /\ extract_and_parse_csv(archive) = {}
             /\ \A disk \in Disks :
                   new(NoFile, archive, disk) =
                      {[out |-> "err", cache_file |-> NoFile,
                        from |-> "archive", data |-> {}]}
    /\ last.op = "new" =>
          \A r \in last.old :
             (r.from = "archive" /\ LoaderFails(r.archive)) =>
                last.out = "err" /\ cache_file = NoFile /\ filter = "none"

\* C18 happens: new has failed on an archive with both tables, because of a
\* row
C18_Witness ==
    /\ last.op = "new" /\ last.out = "err"
    /\ \E r \in last.old :
          r.from = "archive" /\ HasTables(r.archive) /\ LoaderFails(r.archive)
    /\ cache_file = NoFile
    /\ filter = "none"

\* a row has a boolean column that is neither "0" nor "1"
HasBadBool(archive) ==
    \/ \E i \in DOMAIN RowsOf(archive.blocks) :
          \/ ~IsBoolLiteral(RowsOf(archive.blocks)[i].is_anonymous_proxy)
          \/ ~IsBoolLiteral(RowsOf(archive.blocks)[i].is_satellite_provider)
    \/ \E i \in DOMAIN RowsOf(archive.locations) :
          ~IsBoolLiteral(RowsOf(archive.locations)[i].is_in_european_union)

\* C19, as stated: while the tables are loaded a malformed row is skipped
\* and the load goes on, except for a row with a boolean column that is
\* neither "0" nor "1", which aborts the load: the load of an archive with
\* both tables fails if and only if a row has such a column.
C19_OnlyBadBoolAborts ==
    last.op = "new" =>
       \A r \in last.old :
          (r.from = "archive" /\ HasTables(r.archive)) =>
             (extract_and_parse_csv(r.archive) = {} <=> HasBadBool(r.archive))

\* the networks of the rows that have a number as geoname_id, a location for
\* it and a network text that parses
Qualifying(archive) ==
    UNION {ParseNetwork(RowsOf(archive.blocks)[i].network) :
             i \in {j \in DOMAIN RowsOf(archive.blocks) :
                      \E k \in DOMAIN RowsOf(archive.locations) :
                         RowsOf(archive.locations)[k].geoname_id =
                            RowsOf(archive.blocks)[j].geoname_id}}

\* C19, amended: a row that does not deserialize (a boolean column that is
\* neither "0" nor "1", a geoname_id that is no number) aborts the load; a
\* row that deserializes is kept by the loader, and when the index is built
\* a row without geoname_id, without location for its geoname_id, or with a
\* network text that does not parse is skipped and the build goes on.
C19_MalformedRows ==
    last.op = "new" =>
       \A r \in last.old :
          (r.from = "archive" /\ HasTables(r.archive)) =>
             /\ extract_and_parse_csv(r.archive) = {} <=> LoaderFails(r.archive)
             /\ \A data \in extract_and_parse_csv(r.archive) :
                   Len(data.ip_blocks) = Len(RowsOf(r.archive.blocks))
             /\ last.out = "ok" =>
                   DOMAIN networks =
                      {HostNetwork(Localhost)} \cup Qualifying(r.archive)

\* C19 happens: a filter has been built from an archive with a row without
\* geoname_id, and the index holds the network of the good row
C19_Witness ==
    /\ filter = "GeoIpv4Filter"
    /\ last.op = "new" /\ last.out = "ok"
    /\ \E r \in last.old :
          /\ r.from = "archive"
          /\ \E i \in DOMAIN RowsOf(r.archive.blocks) :
                RowsOf(r.archive.blocks)[i] = NoIdRow
    /\ DOMAIN networks =
          {HostNetwork(Localhost), [fam |-> "V4", addr |-> 0, prefix |-> 0]}

\* C20: the round trip of the cache codec: the file that
\* save_compressed_data writes for a GeoData loads to that GeoData, with the
\* blocks in their order and the same locations.
C20_RoundTrip ==
    /\ \A archive \in Archives :
          \A data \in extract_and_parse_csv(archive) :
             \A file \in save_compressed_data(data) :
                load_compressed_data(file) = {data}
    /\ last.op = "new" /\ last.out = "ok" =>
          \A r \in last.old :
             r.from = "archive" =>
                /\ cache_file # NoFile
                /\ extract_and_parse_csv(r.archive) # {}
                /\ load_compressed_data(FileOf(cache_file)) =
                      extract_and_parse_csv(r.archive)

\* C20 happens: new has written the cache file of a GeoData of two blocks
\* and three locations
C20_Witness ==
    /\ last.op = "new" /\ last.out = "ok"
    /\ \E r \in last.old : r.from = "archive"
    /\ cache_file # NoFile
    /\ \E data \in load_compressed_data(FileOf(cache_file)) :
          /\ Len(data.ip_blocks) = 2
          /\ DOMAIN data.country_locations = {1, 2, 3}

(***************************************************************************)
(* Properties of the Country Index that new builds.                        *)
(***************************************************************************)
\* the GeoData the last successful construction built its index from: after
\* the call the cache file holds it, whichever way the call took
BuiltFrom == load_compressed_data(FileOf(cache_file))

\* the networks a text of the network column spells, host bits kept
NetworkLiterals == [fam : {"V4"}, addr : AddrVals, prefix : 0 .. AddrBits]

\* the block has a geoname_id, a network text that parses, and a location
\* for its geoname_id in the data
QualifiesIn(d, i) ==
    /\ d.ip_blocks[i].geoname_id # {}
    /\ ParseNetwork(d.ip_blocks[i].network) # {}
    /\ d.ip_blocks[i].geoname_id \subseteq DOMAIN d.country_locations

\* the positions of the qualifying blocks of the data that name the network
Naming(d, n) ==
    {i \in DOMAIN d.ip_blocks :
       QualifiesIn(d, i) /\ n \in ParseNetwork(d.ip_blocks[i].network)}

\* the location of the block at a position
LocationOf(d, i) ==
    d.country_locations[CHOOSE g \in d.ip_blocks[i].geoname_id : TRUE]

\* the last position of a set of positions
LastOf(positions) == CHOOSE i \in positions : \A j \in positions : j <= i

\* C21: after every successful construction the Country Index maps the
\* network of the loopback address to the synthetic record Norway, and the
\* loopback address resolves to Norway and to nothing else, whatever blocks
\* and locations the data holds.
C21_LoopbackPinned ==
    (filter = "GeoIpv4Filter" /\ last.op = "new" /\ last.out = "ok") =>
       /\ Get(networks, HostNetwork(Localhost)) = {Norway}
       /\ get_country_for_ip(Localhost) = {Norway}

\* C22: the Country Index is the fold over the blocks in their order: a
\* network that a qualifying block names (geoname_id present, network text
\* that parses, location for the geoname_id) is mapped to the location of
\* the last such block; a network that no qualifying block names is not a
\* key, apart from the loopback network, which then keeps the synthetic
\* record; no key is mapped to a record that is not a location of the data.
C22_IndexIsFold ==
    (filter = "GeoIpv4Filter" /\ last.op = "new" /\ last.out = "ok") =>
       \A d \in BuiltFrom :
          \A n \in NetworkLiterals :
             IF Naming(d, n) # {}
             THEN Get(networks, n) = {LocationOf(d, LastOf(Naming(d, n)))}
             ELSE IF n = HostNetwork(Localhost)
                  THEN Get(networks, n) = {Norway}
                  ELSE n \notin DOMAIN networks

\* C22 happens: an index has been built from blocks of which two qualify and
\* name the same network, and the network is mapped to the country of the
\* second block
C22_Witness ==
    /\ filter = "GeoIpv4Filter" /\ last.op = "new" /\ last.out = "ok"
    /\ \E d \in BuiltFrom :
          \E n \in NetworkLiterals :
             /\ Cardinality(Naming(d, n)) = 2
             /\ \E i, j \in Naming(d, n) :
                   i < j /\ LocationOf(d, i) # LocationOf(d, j)
                         /\ networks[n] = LocationOf(d, j)

(***************************************************************************)
(* Frames of the calls.                                                    *)
(***************************************************************************)
\* C23: the frame of block and unblock on a raw filter. A call with
\* is_network false leaves the networks map and the mode as they are, a call
\* with is_network true leaves the addresses map and the mode as they are;
\* and in BlackList mode an address inside a stored network is still blocked
\* after unblock of the address.
C23_RawFrame ==
    /\ [](filter \in RawFilters =>
            \A x \in IpAddrExts :
               /\ RawBlockCall(x, FALSE).networks = networks
               /\ RawUnblockCall(x, FALSE).networks = networks
               /\ RawBlockCall(x, TRUE).addresses = addresses
               /\ RawUnblockCall(x, TRUE).addresses = addresses)
    /\ [][last'.op \in {"block", "unblock"} =>
             /\ mode' = mode
             /\ (last'.op = "unblock" /\ last'.out = "ok"
                   /\ networks' = networks /\ mode = "BlackList") =>
                \A ip \in IpAddrs :
                   (\E n \in DOMAIN networks : Contains(n, ip)) =>
                      RawIsIpBlocked(ip)']_vars

\* C23 happens: in BlackList mode unblock has removed an entry, and what is
\* left is a network that holds every address of its family
C23_Witness ==
    /\ filter \in RawFilters /\ mode = "BlackList"
    /\ last.op = "unblock" /\ last.out = "ok" /\ last.old # {}
    /\ DOMAIN addresses = {}
    /\ \E n \in DOMAIN networks : n.prefix = 0

\* the stores and the mode as they are
StoreNow == Store(addresses, networks, countries, mode, scan)

\* the read calls that can be made in a state, with their arguments
ReadCalls ==
    IF filter = "GeoIpv4Filter"
    THEN {get_country_read(ip) : ip \in Ipv4Addrs}
         \cup {is_ip_blocked_read(ip) : ip \in Ipv4Addrs}
         \cup {is_country_blocked_read(name) : name \in CountryNames}
         \cup {is_blocked_read(x) : x \in IpAddrExts}
    ELSE {is_blocked_read(x) : x \in IpAddrExts}

\* the read call of the name op with the argument arg
ReadCall(op, arg) ==
    CASE op = "get_country_for_ip" -> get_country_read(arg)
      [] op = "is_country_blocked" -> is_country_blocked_read(arg)
      [] op = "is_ip_blocked" -> is_ip_blocked_read(arg)
      [] op = "is_blocked" -> is_blocked_read(arg)

\* C24: the decision calls are reads. is_blocked, is_ip_blocked,
\* is_country_blocked and get_country_for_ip leave the addresses map (the
\* override map of the geo filter), the networks map, the Blocked-Country
\* Set and the mode as they are, on either filter; and a call made again
\* with the same argument on the same stores returns what the first call
\* returned.
C24_PureReads ==
    /\ \A r \in ReadCalls : r.store = StoreNow
    /\ last.op \in {"get_country_for_ip", "is_country_blocked",
                    "is_ip_blocked", "is_blocked"} =>
          \A first \in last.old :
             /\ ReadCall(last.op, first.arg).out = last.out
             /\ ReadCall(last.op, first.arg).ret = first.ret

\* C24 happens: get_country_for_ip has returned the country of one of two
\* stored networks of different countries that contain the address, and a
\* call made again returns that country
C24_Witness ==
    /\ filter = "GeoIpv4Filter"
    /\ last.op = "get_country_for_ip" /\ last.out = "some"
    /\ \E first \in last.old :
          /\ first.arg \notin DOMAIN addresses
          /\ \E n, m \in Covering(first.arg) :
                networks[n] # networks[m] /\ first.ret = {networks[n]}
          /\ get_country_read(first.arg).ret = first.ret

(***************************************************************************)
(* Properties of the Address Overrides of the geo filter.                  *)
(***************************************************************************)
\* an IPv4 address as the argument of a NetworkFilter call
AsArg(ip) == [ty |-> "IpAddr", ip |-> ip]

\* C25: block(a, false) on the geo filter pins the address: after the call
\* the override map has an entry for a, for every IPv4 address a, whether a
\* stored network contains it or not.
C25_PinInserts ==
    filter = "GeoIpv4Filter" =>
      \A a \in Ipv4Addrs :
         \A o \in GeoBlockCall(AsArg(a), FALSE) :
            o.out = "ok" /\ a \in DOMAIN o.addresses

\* C26: unblock(a, false) on the geo filter removes the override of a and
\* nothing else: the call ends without error, the override map it leaves has
\* no entry for a and the entries of the other addresses as they were, and
\* the network map is as it was; and an address without override resolves
\* as the scan of the networks alone does: to the country of a stored
\* network it lies in, or to none.
C26_UnpinReverts ==
    filter = "GeoIpv4Filter" =>
      /\ \A a \in Ipv4Addrs :
            LET o == GeoUnblockCall(AsArg(a), FALSE)
            IN  /\ o.out = "ok"
                /\ DOMAIN o.addresses = DOMAIN addresses \ {a}
                /\ \A b \in DOMAIN o.addresses : o.addresses[b] = addresses[b]
                /\ o.networks = networks
      /\ \A a \in Ipv4Addrs \ DOMAIN addresses :
            get_country_for_ip(a) = {networks[n] : n \in Covering(a)}

\* C26 happens: unblock has removed the override of an address, no override
\* is left, and the address lies in a stored network of another country
C26_Witness ==
    /\ filter = "GeoIpv4Filter"
    /\ last.op = "unblock" /\ last.out = "ok" /\ last.old # {}
    /\ DOMAIN addresses = {}
    /\ \E a \in Ipv4Addrs :
          /\ Covering(a) # {}
          /\ \A n \in Covering(a) : {networks[n]} # last.old

\* C28: the geo decision is total: is_ip_blocked returns true or false for
\* every IPv4 address in every state, also when the address resolves to a
\* location without country name.
C28_DecisionTotal ==
    filter = "GeoIpv4Filter" =>
      \A a \in Ipv4Addrs : is_ip_blocked(a) \subseteq {"true", "false"}

(***************************************************************************)
(* Properties of the fallback of the client-address extraction.            *)
(***************************************************************************)
\* the header of highest priority among those of the request that carry an
\* address
FirstCarrying(req) ==
    CHOOSE h \in Carrying(req) : \A g \in Carrying(req) : Rank(h) <= Rank(g)

\* the response the decision on an address calls for: 403 for an address
\* that resolves to a country the mode blocks, the inner service's 200 for
\* any other
ResponseFor(ip) ==
    IF \E c \in get_country_for_ip(ip) :
          c.country_name # {} /\ BlockedByMode(NameOf(c))
    THEN [status |-> "403", inner_calls |-> 0]
    ELSE [status |-> "200", inner_calls |-> 1]

\* C27: the fallback of the extraction, in a build with axum. A header whose
\* first element is no address is passed over for the next header in the
\* order of priority; when no header carries an address the client address
\* is the peer address of the connection; and a request that carries the
\* peer address alone is answered according to that address: 403 when it
\* resolves to a blocked country, the inner service's 200 otherwise.
C27_SocketFallback ==
    filter = "GeoIpv4Filter" =>
      \A req \in Requests :
         /\ extract_ip(req, "axum").out = "ok"
         /\ extract_ip(req, "axum").ip =
               IF Carrying(req) # {} THEN HeaderIp(req, FirstCarrying(req))
                                     ELSE req.connect_info
         /\ (/\ Carrying(req) = {}
             /\ \E ip \in req.connect_info :
                   Cardinality(get_country_for_ip(ip)) <= 1
                      /\ \A c \in get_country_for_ip(ip) : c.country_name # {})
            => AddConnectionInfoCall(req, "axum") =
                  {ResponseFor(ip) : ip \in req.connect_info}

(***************************************************************************)
(* Properties of two calls of set_countries at the same time.              *)
(***************************************************************************)
\* both callers have called set_countries and both calls have returned
BothReturned == \A w \in Callers : setters[w].pc = "returned"

\* the names of the list a caller has called set_countries with
ListOf(w) == NamesOf(setters[w].names)

\* C30: two replacements at the same time do not mix: after both calls have
\* returned the Blocked-Country Set is the names of the one list or the
\* names of the other.
C30_NoMix ==
    BothReturned => \E w \in Callers : countries = ListOf(w)

\* C30, amended: after both calls have returned the Blocked-Country Set
\* holds every name of the list of one of the callers and no name that is
\* in neither list; names of the other list may be mixed in.
C30_MixWithinLists ==
    BothReturned =>
       /\ \E w \in Callers : ListOf(w) \subseteq countries
       /\ countries \subseteq UNION {ListOf(w) : w \in Callers}

\* C30 happens: both calls have returned, one had found a name of neither
\* list in the set, and the set is a mix: it is neither list, and it is
\* not the union of the two
C30_Witness ==
    /\ BothReturned
    /\ \E w \in Callers : ~(setters[w].old \subseteq UNION {ListOf(v) : v \in Callers})
    /\ \A w \in Callers : countries # ListOf(w)
    /\ countries # UNION {ListOf(w) : w \in Callers}

(***************************************************************************)
(* Properties of is_ip_blocked of the raw filter under concurrent block and *)
(* unblock.                                                                *)
(***************************************************************************)
\* C29: reads of the raw filter are consistent: a call is_blocked(a) on a
\* BlackList filter of which a was a member, by its address key or by a
\* network, in every state between the start and the return of the call
\* returns true, whatever blocks and unblocks of other keys interleave; and
\* the decision a call returns is the decision on a state of the maps that
\* existed during the call.
C29_ConsistentReads ==
    reader.pc = "returned" =>
       /\ (mode = "BlackList" /\ reader.member_all) => reader.out = "true"
       /\ reader.out \in reader.decisions

\* C29, amended: a call is_blocked(a) on a BlackList filter returns true
\* when the address key a was present in every state between the start and
\* the return of the call, or when one and the same network that contains a
\* was stored in every such state, whatever blocks and unblocks of other
\* keys interleave; and when a call returns the decision for a member (true
\* in BlackList mode), a was a member in a state that existed during the
\* call.
C29_PerKeyReads ==
    reader.pc = "returned" =>
       /\ (mode = "BlackList"
             /\ (reader.key_stable \/ reader.nets_stable # {})) =>
          reader.out = "true"
       /\ reader.out = Bool(mode = "BlackList") =>
             Bool(mode = "BlackList") \in reader.decisions

\* C29 happens: a call on a BlackList filter has returned true for an
\* address that was no address key when the call began, while blocks or
\* unblocks went on and a network that contains the address stayed stored
C29_Witness ==
    /\ mode = "BlackList"
    /\ reader.pc = "returned" /\ reader.out = "true"
    /\ reader.raced /\ ~reader.key_stable
    /\ reader.nets_stable # {}

(***************************************************************************)
(* Properties of the keys of the raw filter.                               *)
(***************************************************************************)
\* the family of the keys an IpFilter<S> is instantiated for
KeyFamily == IF filter = "IpFilter<V4>" THEN "V4" ELSE "V6"

\* C31: address-family invariant of the raw filter. In every state an
\* IpFilter<V4> that started empty reaches by calls of block and unblock,
\* every key of its addresses map is an IPv4 address and every key of its
\* networks map is an IPv4 network; and an IpFilter<V6> holds IPv6 keys only.
C31_FamilyInvariant ==
    filter \in RawFilters =>
       /\ \A ip \in DOMAIN addresses : ip.fam = KeyFamily
       /\ \A n \in DOMAIN networks : n.fam = KeyFamily

\* C31 happens: block has returned on an IpFilter<V6> that holds an address
\* key and a network key
C31_Witness ==
    /\ filter = "IpFilter<V6>"
    /\ last.op = "block" /\ last.out = "ok"
    /\ DOMAIN addresses # {}
    /\ DOMAIN networks # {}

(***************************************************************************)
(* Properties of block on a BlackList raw filter.                          *)
(***************************************************************************)
\* the addresses an argument denotes: itself if it is an address, every
\* address from the first to the last of the range if it is a network
Denoted(x) ==
    CASE x.ty = "Ipv4Addr" -> {V4(x.val)}
      [] x.ty = "Ipv6Addr" -> {V6(x.val)}
      [] x.ty = "IpAddr" -> {x.ip}
      [] x.ty = "Ipv4Network" -> {ip \in IpAddrs : InRange(x.net, ip)}

\* the first of the addresses an argument denotes
FirstDenoted(x) == {ip \in Denoted(x) : \A other \in Denoted(x) : ip.val <= other.val}

\* the step is a call of block on a BlackList raw filter that returned
BlockReturned == mode = "BlackList" /\ last'.op = "block" /\ last'.out = "ok"

\* C32: block takes effect for its whole argument on a BlackList raw filter:
\* after block(x, is_network) has returned, for either value of is_network
\* and for x an address or a network, is_blocked(a) is true for every
\* address a that x denotes.
C32_BlockWholeArgument ==
    [][BlockReturned =>
         \A x \in IpAddrExts, network \in BOOLEAN :
            RawBlock(x, network) =>
               \A a \in Denoted(x) : RawIsBlockedCall(AsArg(a)).out' = "true"]_vars

\* C32, amended: after block(x, is_network) has returned on a BlackList raw
\* filter, is_blocked(a) is true for every address a that x denotes when x
\* is an address (for either value of is_network) or is_network is true;
\* when x is a network and is_network is false, is_blocked is true for the
\* first address of the range of x.
C32_BlockByFlag ==
    [][BlockReturned =>
         \A x \in IpAddrExts, network \in BOOLEAN :
            RawBlock(x, network) =>
               \A a \in (IF x.ty = "Ipv4Network" /\ ~network
                         THEN FirstDenoted(x) ELSE Denoted(x)) :
                  RawIsBlockedCall(AsArg(a)).out' = "true"]_vars

\* C32 happens: block has returned on a BlackList filter and has stored a
\* network of several addresses, the one entry of the filter
C32_Witness ==
    /\ filter \in RawFilters /\ mode = "BlackList"
    /\ last.op = "block" /\ last.out = "ok" /\ last.old = {}
    /\ DOMAIN addresses = {}
    /\ \E n \in IpNetworks : DOMAIN networks = {n} /\ n.prefix < AddrBits

=============================================================================
